---- MODULE Spec2Model ----
(***************************************************************************)
(* State-machine model of the ju::sqlite binding layer: the generated      *)
(* shims (function.hpp, aggregate.hpp), the lazy per-group aggregate state *)
(* (context.hpp), the managed allocation helpers (pointer.hpp) and the     *)
(* registration calls (function.hpp, aggregate.hpp, collation.hpp).        *)
(* The foreign engine is modelled by the contract of the entry points the  *)
(* code calls, at the place where the code calls them.                     *)
(***************************************************************************)
EXTENDS Integers, Sequences, FiniteSets, TLC

VARIABLES
  \* ---- the connection and its one prepared statement ----
  conn,       \* "open", "closed", or "crashed" (the process died)
  query,      \* the prepared statement: which function it calls, and its state
  \* ---- scalar functions ----
  callable,   \* the func3 object boxed by create_function<func3>(db, "func3", 0, 0)
  ncalls,     \* completed invocations of func3 by the engine
  fnptr,      \* userdata of the pointer-lifetime registration: "none", "null", "valid"
  \* ---- aggregate shims ----
  control,    \* userdata of the aggregate registration: the boxed aggregate_control
  aggctx,     \* per group: the engine's aggregate context memory (lazy_initialised<T>)
  fed,        \* per group: rows the engine has passed to the step shim
  out,        \* per group: rows the engine has passed to the inverse shim
  phase,      \* per group: "idle", "active", "failed" (an error result was set), "done"
  ctor,       \* per group: constructor calls of T on this group's buffer
  dtor,       \* per group: destructor calls of T on this group's buffer
  last,       \* the most recent shim invocation and the result it left on the context
  \* ---- registration and ownership (SpecReg) ----
  heap,       \* the boxes make_managed has allocated, in allocation order
  funcs,      \* the engine's function/aggregate registration for one name
  colls,      \* the engine's collation registration for one name
  ret,        \* the most recent registration call and what it returned
  \* ---- the window run of the rolling sum (SpecWin) ----
  win,        \* where the engine is in the current row's cycle, and the values read
  \* ---- registration arity (SpecArity) ----
  ar,         \* the engine's argument limit, the arities it holds, the last call
  \* ---- storage of one object in a foreign buffer (SpecPtr) ----
  buf,        \* the type stored, the buffer allocated for it, the pointer recovered
  \* ---- classification of a result code (SpecErr) ----
  cls,        \* the code classified last and what the four predicates answered
  \* ---- one transaction object (SpecTxn) ----
  txn,        \* its lifetime, its fields db and active, and the calls made on it
  \* ---- one backup object (SpecBak) ----
  bk,         \* its lifetime, its handle, the pages left to copy, the calls made
  bk2,        \* a second backup object, the other side of a move
  \* ---- an aggregate returning text or blob (SpecView) ----
  view,       \* its state, the result left on the context, what the engine read
  \* ---- one prepared statement and its iterator (SpecStmt) ----
  st          \* the engine's statement, the iterator, the last call and its result

fnVars == <<conn, query, callable, ncalls, fnptr>>
aggVars == <<control, aggctx, fed, out, phase, ctor, dtor>>
regVars == <<heap, funcs, colls, ret>>
libVars == <<win, ar, buf, cls, txn, bk, bk2, view, st>>
vars == <<conn, query, callable, ncalls, fnptr,
          control, aggctx, fed, out, phase, ctor, dtor, last,
          heap, funcs, colls, ret, win, ar, buf, cls, txn, bk, bk2, view, st>>

----------------------------------------------------------------------------
\* Error codes of the taxonomy that the shims and registrations use.
ok == 0
error == 1
busy == 5
nomem == 7
misuse == 21
row == 100
done == 101

\* The exception shapes JUSQLITE_TRY_CTX distinguishes, and "none" for a
\* block that completes.
Thrown == {"error", "exception", "error_code", "other"}
Outcome == {"none"} \cup Thrown

\* Payload of a thrown object: the error enum's code, what() or message().
ThrownCode == busy
ThrownWhat == "Intentional test error"
ThrownMessage == "error_code message"

----------------------------------------------------------------------------
\* Results on the execution context (sqlite3_result_*).
NoResult == [kind |-> "none", v |-> 0, code |-> 0, msg |-> ""]
ValueResult(x) == [kind |-> "value", v |-> x, code |-> 0, msg |-> ""]
ErrorCode(c) == [kind |-> "error_code", v |-> 0, code |-> c, msg |-> ""]
ErrorMsg(m) == [kind |-> "error_msg", v |-> 0, code |-> 0, msg |-> m]

IsErrorResult(r) == r.kind \in {"error_code", "error_msg"}

\* JUSQLITE_TRY_CTX without its catch (...) clause: an exception of another
\* type leaves the shim and nothing is recorded on the context.
JUSQLITE_TRY_CTX_no_catch_all(t) ==
  CASE t = "error"      -> [result |-> ErrorCode(ThrownCode), escaped |-> FALSE]
    [] t = "exception"  -> [result |-> ErrorMsg(ThrownWhat), escaped |-> FALSE]
    [] t = "error_code" -> [result |-> ErrorMsg(ThrownMessage), escaped |-> FALSE]
    [] OTHER            -> [result |-> NoResult, escaped |-> TRUE]

\* JUSQLITE_TRY_CTX: the result the catch clauses leave on the context for a
\* block that threw `t`, and whether the exception left the shim.
JUSQLITE_TRY_CTX(t) ==
  CASE t = "error"      -> [result |-> ErrorCode(ThrownCode), escaped |-> FALSE]
    [] t = "exception"  -> [result |-> ErrorMsg(ThrownWhat), escaped |-> FALSE]
    [] t = "error_code" -> [result |-> ErrorMsg(ThrownMessage), escaped |-> FALSE]
    [] OTHER            -> [result |-> ErrorCode(error), escaped |-> FALSE]

----------------------------------------------------------------------------
\* The grouped test data: two groups; MaxRows bounds the rows the engine
\* feeds per group.
NumGroups == 2
MaxRows == 3

Groups == 1..NumGroups

\* The rows of group g: val + (group - 1) * 3 for val = 1..3 in the grouped
\* test data, i.e. 1,2,3 for group 1 and 4,5,6 for group 2.
Row(g, i) == i + (g - 1) * 3

\* Sum of the rows of group g with index in lo+1..hi (the current frame).
RECURSIVE FrameSum(_, _, _)
FrameSum(g, lo, hi) == IF hi <= lo THEN 0 ELSE Row(g, hi) + FrameSum(g, lo, hi - 1)

----------------------------------------------------------------------------
\* The user's aggregate type: a rolling sum with step, inverse and value.
\* `alive` is the object's lifetime (between its constructor and destructor).
agg_ctor == [sum |-> 0, alive |-> TRUE]
agg_step(self, value) == [self EXCEPT !.sum = self.sum + value]
agg_inverse(self, value) == [self EXCEPT !.sum = self.sum - value]
agg_value(self) == self.sum
agg_dtor(self) == [self EXCEPT !.alive = FALSE]

\* aggregate_control<T, Args...>: the initialiser and the constructor
\* arguments, boxed by create_aggregate; NullControl is a null userdata.
NullControl == [boxed |-> FALSE, initialise |-> "null"]
BoxedControl == [boxed |-> TRUE, initialise |-> "construct_aggregate"]

\* An initialiser that starts the object's lifetime without running agg2's
\* constructor body: the sum is whatever the buffer suggests.
construct_aggregate_no_init(ctl) == [sum |-> 1, alive |-> TRUE]

\* construct_aggregate: std::construct_at(target, constructor_args...).
construct_aggregate(ctl) == agg_ctor

\* lazy_initialised<T> in memory the engine has just zero-filled.
ZeroFilled == [state |-> "alloc", is_initialised |-> FALSE,
               instance |-> [sum |-> 0, alive |-> FALSE]]
Unallocated == [state |-> "unalloc", is_initialised |-> FALSE,
                instance |-> [sum |-> 0, alive |-> FALSE]]

\* sqlite3_aggregate_context(ctx, nBytes) with nBytes > 0: the first call for
\* a group allocates zero-filled memory or fails; every later call returns
\* what the first one left (the same buffer, or null after a failure).
sqlite3_aggregate_context(mem, allocOk) ==
  IF mem.state = "unalloc"
    THEN IF allocOk THEN ZeroFilled ELSE [mem EXCEPT !.state = "nomem"]
    ELSE mem

\* aggdata that hands every group the instance in the first group's buffer.
aggdata_shared(g, mem, ctl, allocOk) ==
  LET storage == sqlite3_aggregate_context(mem, allocOk) IN
  IF storage.state # "alloc"
    THEN [agg |-> 0, mem |-> storage, constructed |-> FALSE]
  ELSE IF storage.is_initialised
    THEN [agg |-> 1, mem |-> storage, constructed |-> FALSE]
  ELSE IF ~ctl.boxed
    THEN [agg |-> 0, mem |-> storage, constructed |-> FALSE]
  ELSE [agg |-> 1,
        mem |-> [storage EXCEPT !.instance = construct_aggregate(ctl),
                                !.is_initialised = TRUE],
        constructed |-> TRUE]

\* aggdata that constructs but leaves is_initialised unset.
aggdata_flag_unset(g, mem, ctl, allocOk) ==
  LET storage == sqlite3_aggregate_context(mem, allocOk) IN
  IF storage.state # "alloc"
    THEN [agg |-> 0, mem |-> storage, constructed |-> FALSE]
  ELSE IF storage.is_initialised
    THEN [agg |-> g, mem |-> storage, constructed |-> FALSE]
  ELSE IF ~ctl.boxed
    THEN [agg |-> 0, mem |-> storage, constructed |-> FALSE]
  ELSE [agg |-> g,
        mem |-> [storage EXCEPT !.instance = construct_aggregate(ctl)],
        constructed |-> TRUE]

\* aggdata<T>(ctx) for a non-simple T, on the context of group g.
\* agg is the returned pointer: the group whose buffer holds the instance,
\* 0 for nullptr. mem is the group's buffer after the call.
aggdata(g, mem, ctl, allocOk) ==
  LET storage == sqlite3_aggregate_context(mem, allocOk) IN
  IF storage.state # "alloc"
    THEN [agg |-> 0, mem |-> storage, constructed |-> FALSE]
  ELSE IF storage.is_initialised
    THEN [agg |-> g, mem |-> storage, constructed |-> FALSE]
  ELSE IF ~ctl.boxed
    THEN [agg |-> 0, mem |-> storage, constructed |-> FALSE]
  ELSE [agg |-> g,
        mem |-> [storage EXCEPT !.instance = construct_aggregate(ctl),
                                !.is_initialised = TRUE],
        constructed |-> TRUE]


\* The record of one shim invocation: the shim, the function (fn) or group (id)
\* it ran for, whether the recovered state pointer was null, whether the
\* user's callable was invoked, what the try block threw, the result left on
\* the context, whether an exception left the shim, and whether the shim
\* executed undefined behaviour.
Invocation(shim, fn, id, null, invoked, t, result, escaped, ub) ==
  [shim |-> shim, fn |-> fn, id |-> id, state_null |-> null, invoked |-> invoked,
   thrown |-> t, result |-> result, escaped |-> escaped, ub |-> ub]

NoInvocation == Invocation("none", "", 0, FALSE, FALSE, "none", NoResult, FALSE, FALSE)

\* The try block of a shim that threw t after the user's callable was
\* (invoked) or was not reached.
Caught(shim, fn, id, invoked, t) ==
  Invocation(shim, fn, id, FALSE, invoked, t,
             JUSQLITE_TRY_CTX(t).result, JUSQLITE_TRY_CTX(t).escaped, FALSE)

Bump(f, g, n) == [f EXCEPT ![g] = f[g] + n]

\* A final shim without its std::destroy_at.
destroy_at_skipped(obj) == [obj |-> obj, calls |-> 0]

\* std::destroy_at(agg) on the instance of a group.
destroy_at(obj) == [obj |-> agg_dtor(obj), calls |-> 1]

\* A validation that reports nomem but does not return: the user's method
\* runs.
JUSQLITE_VALIDATE_CTX_no_return(shim, g, a) ==
  /\ aggctx' = [aggctx EXCEPT ![g] = a.mem]
  /\ last' = Invocation(shim, "", g, TRUE, TRUE, "none", ErrorCode(nomem), FALSE, FALSE)
  /\ UNCHANGED <<ctor, dtor>>

\* JUSQLITE_VALIDATE_CTX(agg, ctx) with agg null: bind(ctx, error::nomem) and
\* return from the shim.
JUSQLITE_VALIDATE_CTX(shim, g, a) ==
  /\ aggctx' = [aggctx EXCEPT ![g] = a.mem]
  /\ last' = Invocation(shim, "", g, TRUE, FALSE, "none", ErrorCode(nomem), FALSE, FALSE)
  /\ UNCHANGED <<ctor, dtor>>

\* The engine is executing the aggregate statement.
AggRunning == conn = "open" /\ query.sql = "agg" /\ query.state = "ready"
\* A shim has left an error on a context: the statement is aborted, and the
\* engine only finalizes the groups it has touched.
Aborted == \E g \in DOMAIN phase : phase[g] = "failed"

\* invoke_agg_step<T>: the engine passes the next row of group g.
\* stage says where a throwing block throws: decoding the arguments
\* (build_call_args) or the user's step itself.
invoke_agg_step(g, allocOk, t, stage) ==
  LET a == aggdata(g, aggctx[g], control, allocOk)
      value == Row(g, fed[g] + 1)
      mem1 == [aggctx EXCEPT ![g] = a.mem]
  IN IF a.agg = 0
       THEN /\ JUSQLITE_VALIDATE_CTX("step", g, a)
            /\ phase' = [phase EXCEPT ![g] = "failed"]
            /\ UNCHANGED <<fed, out>>
       ELSE /\ ctor' = Bump(ctor, g, IF a.constructed THEN 1 ELSE 0)
            /\ IF t = "none"
                 THEN /\ aggctx' = [mem1 EXCEPT ![a.agg].instance =
                                       agg_step(mem1[a.agg].instance, value)]
                      /\ last' = Invocation("step", "", g, FALSE, TRUE, t,
                                            NoResult, FALSE, FALSE)
                      /\ fed' = [fed EXCEPT ![g] = fed[g] + 1]
                      /\ phase' = [phase EXCEPT ![g] = "active"]
                 ELSE /\ aggctx' = mem1
                      /\ last' = Caught("step", "", g, stage = "call", t)
                      /\ fed' = fed
                      /\ phase' = [phase EXCEPT ![g] = "failed"]
            /\ UNCHANGED <<dtor, out>>

\* An inverse shim that applies the user's step.
invoke_agg_inverse_as_step(g, allocOk, t, stage) ==
  LET a == aggdata(g, aggctx[g], control, allocOk)
      value == Row(g, out[g] + 1)
      mem1 == [aggctx EXCEPT ![g] = a.mem]
  IN IF a.agg = 0
       THEN /\ JUSQLITE_VALIDATE_CTX("inverse", g, a)
            /\ phase' = [phase EXCEPT ![g] = "failed"]
            /\ UNCHANGED <<fed, out>>
       ELSE /\ ctor' = Bump(ctor, g, IF a.constructed THEN 1 ELSE 0)
            /\ IF t = "none"
                 THEN /\ aggctx' = [mem1 EXCEPT ![a.agg].instance =
                                       agg_step(mem1[a.agg].instance, value)]
                      /\ last' = Invocation("inverse", "", g, FALSE, TRUE, t,
                                            NoResult, FALSE, FALSE)
                      /\ out' = [out EXCEPT ![g] = out[g] + 1]
                      /\ phase' = phase
                 ELSE /\ aggctx' = mem1
                      /\ last' = Caught("inverse", "", g, stage = "call", t)
                      /\ out' = out
                      /\ phase' = [phase EXCEPT ![g] = "failed"]
            /\ UNCHANGED <<dtor, fed>>

\* invoke_agg_inverse<T>: the engine removes the oldest row of the frame.
invoke_agg_inverse(g, allocOk, t, stage) ==
  LET a == aggdata(g, aggctx[g], control, allocOk)
      value == Row(g, out[g] + 1)
      mem1 == [aggctx EXCEPT ![g] = a.mem]
  IN IF a.agg = 0
       THEN /\ JUSQLITE_VALIDATE_CTX("inverse", g, a)
            /\ phase' = [phase EXCEPT ![g] = "failed"]
            /\ UNCHANGED <<fed, out>>
       ELSE /\ ctor' = Bump(ctor, g, IF a.constructed THEN 1 ELSE 0)
            /\ IF t = "none"
                 THEN /\ aggctx' = [mem1 EXCEPT ![a.agg].instance =
                                       agg_inverse(mem1[a.agg].instance, value)]
                      /\ last' = Invocation("inverse", "", g, FALSE, TRUE, t,
                                            NoResult, FALSE, FALSE)
                      /\ out' = [out EXCEPT ![g] = out[g] + 1]
                      /\ phase' = phase
                 ELSE /\ aggctx' = mem1
                      /\ last' = Caught("inverse", "", g, stage = "call", t)
                      /\ out' = out
                      /\ phase' = [phase EXCEPT ![g] = "failed"]
            /\ UNCHANGED <<dtor, fed>>

\* The block { bind(ctx, agg->value()); } of the value and final shims.
ValueBlock(shim, g, agg, mem1, t) ==
  IF t = "none"
    THEN Invocation(shim, "", g, FALSE, TRUE, t,
                    ValueResult(agg_value(mem1[agg].instance)), FALSE, FALSE)
    ELSE Caught(shim, "", g, TRUE, t)

\* invoke_agg_value<T>: the engine reads the current value of group g.
invoke_agg_value(g, allocOk, t) ==
  LET a == aggdata(g, aggctx[g], control, allocOk)
      mem1 == [aggctx EXCEPT ![g] = a.mem]
  IN /\ IF a.agg = 0
          THEN /\ JUSQLITE_VALIDATE_CTX("value", g, a)
               /\ phase' = [phase EXCEPT ![g] = "failed"]
          ELSE /\ ctor' = Bump(ctor, g, IF a.constructed THEN 1 ELSE 0)
               /\ aggctx' = mem1
               /\ last' = ValueBlock("value", g, a.agg, mem1, t)
               /\ phase' = [phase EXCEPT ![g] =
                              IF t = "none" THEN "active" ELSE "failed"]
               /\ UNCHANGED dtor
     /\ UNCHANGED <<fed, out>>

\* A final shim with std::destroy_at(agg) inside the try block, after bind.
invoke_agg_final_destroy_in_try(g, allocOk, t) ==
  LET a == aggdata(g, aggctx[g], control, allocOk)
      mem1 == [aggctx EXCEPT ![g] = a.mem]
  IN /\ IF a.agg = 0
          THEN JUSQLITE_VALIDATE_CTX("final", g, a)
          ELSE LET d == IF t = "none" THEN destroy_at(mem1[a.agg].instance)
                        ELSE [obj |-> mem1[a.agg].instance, calls |-> 0] IN
               /\ ctor' = Bump(ctor, g, IF a.constructed THEN 1 ELSE 0)
               /\ last' = ValueBlock("final", g, a.agg, mem1, t)
               /\ aggctx' = [mem1 EXCEPT ![a.agg].instance = d.obj]
               /\ dtor' = Bump(dtor, a.agg, d.calls)
     /\ phase' = [phase EXCEPT ![g] = "done"]
     /\ UNCHANGED <<fed, out>>

\* invoke_agg_final<T>: the engine finalizes group g; std::destroy_at(agg)
\* follows the try block.
invoke_agg_final(g, allocOk, t) ==
  LET a == aggdata(g, aggctx[g], control, allocOk)
      mem1 == [aggctx EXCEPT ![g] = a.mem]
  IN /\ IF a.agg = 0
          THEN JUSQLITE_VALIDATE_CTX("final", g, a)
          ELSE LET d == destroy_at(mem1[a.agg].instance) IN
               /\ ctor' = Bump(ctor, g, IF a.constructed THEN 1 ELSE 0)
               /\ last' = ValueBlock("final", g, a.agg, mem1, t)
               /\ aggctx' = [mem1 EXCEPT ![a.agg].instance = d.obj]
               /\ dtor' = Bump(dtor, a.agg, d.calls)
     /\ phase' = [phase EXCEPT ![g] = "done"]
     /\ UNCHANGED <<fed, out>>

\* What the engine may pass: an allocation can only fail where one is made,
\* and a block that completes has no throwing stage.
AllocChoices(g) == IF aggctx[g].state = "unalloc" THEN BOOLEAN ELSE {TRUE}
Stages(t) == IF t = "none" THEN {"call"} ELSE {"decode", "call"}

\* The engine calls xStep with the next row of a group whose query has not
\* failed.
StepAgg ==
  \E g \in Groups :
    /\ AggRunning /\ ~Aborted
    /\ phase[g] \in {"idle", "active"}
    /\ fed[g] < MaxRows
    /\ \E allocOk \in AllocChoices(g), t \in Outcome : \E stage \in Stages(t) :
         invoke_agg_step(g, allocOk, t, stage)
    /\ UNCHANGED <<fnVars, control, regVars, libVars>>

\* The engine calls xInverse with the oldest row of the frame.
InverseAgg ==
  \E g \in Groups :
    /\ AggRunning /\ ~Aborted
    /\ phase[g] = "active"
    /\ out[g] < fed[g]
    /\ \E allocOk \in AllocChoices(g), t \in Outcome : \E stage \in Stages(t) :
         invoke_agg_inverse(g, allocOk, t, stage)
    /\ UNCHANGED <<fnVars, control, regVars, libVars>>

\* The engine calls xValue for the current row of a window.
ValueAgg ==
  \E g \in Groups :
    /\ AggRunning /\ ~Aborted
    /\ phase[g] \in {"idle", "active"}
    /\ \E allocOk \in AllocChoices(g), t \in Outcome :
         invoke_agg_value(g, allocOk, t)
    /\ UNCHANGED <<fnVars, control, regVars, libVars>>

\* The engine calls xFinal once for a group: at the end of its rows, or to
\* clean up after an error.
FinalAgg ==
  \E g \in Groups :
    /\ AggRunning
    /\ phase[g] # "done"
    /\ \E allocOk \in AllocChoices(g), t \in Outcome :
         invoke_agg_final(g, allocOk, t)
    /\ UNCHANGED <<fnVars, control, regVars, libVars>>

----------------------------------------------------------------------------
\* Scalar functions.
MaxCalls == 2         \* invocations of the stateful function object

\* Arguments the statements pass to a scalar function.
Args == {1, 42}

\* func3: explicit func3(int initial_count); operator() increments
\* call_count and returns a + call_count. A box carries the object's
\* lifetime and the counts of destructor calls and of sqlite3_free calls.
func3_ctor(initial_count) ==
  [call_count |-> initial_count, alive |-> TRUE, dtor |-> 0, freed |-> 0]
func3_call(self, a) ==
  [self |-> [self EXCEPT !.call_count = self.call_count + 1],
   ret |-> a + self.call_count + 1]
\* func1, registered through a pointer, and the stateless func2.
func1(a) == a + 1
func2(a) == a + 2

\* A deleter that destroys the object and keeps the storage.
managed_deleter_no_free(box) ==
  [box EXCEPT !.alive = FALSE, !.dtor = box.dtor + 1]

\* managed_deleter<T>: std::destroy_at(p); sqlite3_free(storage).
managed_deleter(box) ==
  [box EXCEPT !.alive = FALSE, !.dtor = box.dtor + 1, !.freed = box.freed + 1]

\* userdata<F>(ctx): the pointer the registration passed as pApp.
userdata(fn) == IF fn = "func3" THEN "boxed" ELSE fnptr

\* The call operator run on a copy of the boxed object.
ApplyCallable_on_copy(fn, box, a) ==
  IF fn = "func3" THEN [self |-> box, ret |-> func3_call(box, a).ret]
                  ELSE [self |-> box, ret |-> func1(a)]

\* std::apply(*callable, args): the call operator runs on the object the
\* userdata points to, so what it changes stays in the box.
ApplyCallable(fn, box, a) ==
  IF fn = "func3" THEN func3_call(box, a)
                  ELSE [self |-> box, ret |-> func1(a)]

\* invoke_userdata_func<F> for the function fn called with argument a.
\* The try block throws t while decoding the arguments, in the callable, or
\* while encoding the result. The shim does not test the recovered pointer:
\* with a null pointer std::apply(*callable, ...) is undefined behaviour,
\* which either kills the process or runs the call operator on no object.
invoke_userdata_func(fn, a, t, stage, ubOut) ==
  LET ptr == userdata(fn) IN
  IF ptr = "null"
    THEN /\ last' = Invocation("userdata", fn, 0, TRUE, TRUE, "none",
                               IF ubOut = "crash" THEN NoResult
                                                  ELSE ValueResult(func1(a)),
                               FALSE, TRUE)
         /\ conn' = IF ubOut = "crash" THEN "crashed" ELSE conn
         /\ UNCHANGED <<callable, ncalls>>
  ELSE IF t # "none" /\ stage # "encode"
    THEN /\ last' = Caught("userdata", fn, 0, stage = "call", t)
         /\ UNCHANGED <<conn, callable, ncalls>>
  ELSE LET r == ApplyCallable(fn, callable, a)
       IN /\ callable' = r.self
          /\ ncalls' = IF fn = "func3" THEN ncalls + 1 ELSE ncalls
          /\ last' = IF t = "none"
                       THEN Invocation("userdata", fn, 0, FALSE, TRUE, t,
                                       ValueResult(r.ret), FALSE, FALSE)
                       ELSE Caught("userdata", fn, 0, TRUE, t)
          /\ UNCHANGED conn

\* invoke_stateless_func<F>: a fresh F{} is invoked inside the try block.
invoke_stateless_func(a, t, stage) ==
  /\ last' = IF t = "none"
               THEN Invocation("stateless", "stateless", 0, FALSE, TRUE, t,
                               ValueResult(func2(a)), FALSE, FALSE)
               ELSE Caught("stateless", "stateless", 0, stage # "decode", t)
  /\ UNCHANGED <<conn, callable, ncalls>>

\* register_function(db, name, flags, T *callable): the pointer is passed to
\* the engine as it is, with no destructor; rc is the engine's answer.
register_function_ptr(p, rc) ==
  /\ conn = "open"
  /\ query.sql = "none"
  /\ fnptr' = IF rc = ok THEN p ELSE fnptr
  /\ UNCHANGED <<conn, query, callable, ncalls, aggVars, last, regVars, libVars>>

----------------------------------------------------------------------------
\* The engine, as the tests drive it: one prepared statement at a time.
NoQuery == [sql |-> "none", state |-> "none"]
FnStages(t) == IF t = "none" THEN {"call"} ELSE {"decode", "call", "encode"}
UBOutcomes(fn) == IF userdata(fn) = "null" THEN {"crash", "runs"} ELSE {"runs"}
FreshGroups ==
  /\ aggctx' = [g \in Groups |-> Unallocated]
  /\ fed' = [g \in Groups |-> 0]
  /\ out' = [g \in Groups |-> 0]
  /\ phase' = [g \in Groups |-> "idle"]
  /\ ctor' = [g \in Groups |-> 0]
  /\ dtor' = [g \in Groups |-> 0]
\* No group of the statement is in use: every touched group was finalized.
GroupsSettled == \A g \in Groups : phase[g] \in {"idle", "done"}

\* sqlite3_prepare_v2 of "SELECT <function>(...)".
Prepare(sql) ==
  /\ conn = "open"
  /\ query = NoQuery
  /\ sql = "fptr" => fnptr # "none"
  /\ query' = [sql |-> sql, state |-> "ready"]
  /\ UNCHANGED <<conn, callable, ncalls, fnptr, aggVars, last, regVars, libVars>>

\* sqlite3_step of a statement calling a function registered with userdata.
StepUserdata ==
  /\ conn = "open"
  /\ query.sql \in {"func3", "fptr"}
  /\ query.state = "ready"
  /\ query.sql = "func3" => ncalls < MaxCalls
  /\ \E a \in Args, t \in Outcome, ubOut \in UBOutcomes(query.sql) :
       \E stage \in FnStages(t) :
         invoke_userdata_func(query.sql, a, t, stage, ubOut)
  /\ query' = [query EXCEPT !.state =
                 IF IsErrorResult(last'.result) THEN "error" ELSE "row"]
  /\ UNCHANGED <<fnptr, aggVars, regVars, libVars>>

\* sqlite3_step of a statement calling the stateless function.
StepStateless ==
  /\ conn = "open"
  /\ query.sql = "stateless"
  /\ query.state = "ready"
  /\ \E a \in Args, t \in Outcome : \E stage \in FnStages(t) :
       invoke_stateless_func(a, t, stage)
  /\ query' = [query EXCEPT !.state =
                 IF IsErrorResult(last'.result) THEN "error" ELSE "row"]
  /\ UNCHANGED <<fnptr, aggVars, regVars, libVars>>

\* sqlite3_step after the only row: done, no function is called.
StepDone ==
  /\ conn = "open"
  /\ query.sql \in {"func3", "fptr", "stateless"}
  /\ query.state = "row"
  /\ query' = [query EXCEPT !.state = "done"]
  /\ UNCHANGED <<conn, callable, ncalls, fnptr, aggVars, last, regVars, libVars>>

\* sqlite3_reset of a statement calling a scalar function: it can run again.
ResetFn ==
  /\ conn = "open"
  /\ query.sql \in {"func3", "fptr", "stateless"}
  /\ query.state # "ready"
  /\ query' = [query EXCEPT !.state = "ready"]
  /\ UNCHANGED <<conn, callable, ncalls, fnptr, aggVars, last, regVars, libVars>>

\* sqlite3_reset of the aggregate statement: the engine has released the
\* aggregate contexts of the finished run, the next run gets fresh ones.
ResetAgg ==
  /\ conn = "open"
  /\ query.sql = "agg"
  /\ GroupsSettled
  /\ \E g \in Groups : phase[g] = "done"
  /\ FreshGroups
  /\ UNCHANGED <<conn, query, callable, ncalls, fnptr, control, last, regVars, libVars>>

\* sqlite3_finalize.
Finalize ==
  /\ conn = "open"
  /\ query # NoQuery
  /\ query.sql = "agg" => GroupsSettled
  /\ query' = NoQuery
  /\ FreshGroups
  /\ UNCHANGED <<conn, callable, ncalls, fnptr, control, last, regVars, libVars>>

RegisterPtr == \E p \in {"null", "valid"}, rc \in {ok, error} : register_function_ptr(p, rc)
PrepareFn == \E sql \in {"func3", "fptr", "stateless"} : Prepare(sql)
PrepareAgg == Prepare("agg")

----------------------------------------------------------------------------
\* Registration by value: boxes on the engine's heap and the engine's slots.
NoReg == [live |-> FALSE, pApp |-> 0, xDestroy |-> FALSE]

\* Outcomes of make_managed: the foreign allocator returns null, T's
\* constructor throws, or the object is constructed.
Boxing == {"nomem", "throws", "ok"}
MaxBoxes == 3         \* allocations by make_managed on one connection

\* make_managed whose catch clause returns the empty pointer without
\* sqlite3_free.
make_managed_no_free(h, type, mm) ==
  CASE mm = "nomem"  -> [p |-> 0, heap |-> h]
    [] mm = "throws" -> [p |-> 0,
                         heap |-> Append(h, [type |-> type, constructed |-> FALSE,
                                             alive |-> FALSE, dtor |-> 0, freed |-> 0])]
    [] OTHER         -> [p |-> Len(h) + 1,
                         heap |-> Append(h, [type |-> type, constructed |-> TRUE,
                                             alive |-> TRUE, dtor |-> 0, freed |-> 0])]

\* make_managed<T>(args...): sqlite3_malloc64, then std::construct_at; a
\* throwing constructor frees the buffer and an empty pointer is returned.
\* p is the returned pointer: the index of the box in the heap, 0 if empty.
make_managed(h, type, mm) ==
  CASE mm = "nomem"  -> [p |-> 0, heap |-> h]
    [] mm = "throws" -> [p |-> 0,
                         heap |-> Append(h, [type |-> type, constructed |-> FALSE,
                                             alive |-> FALSE, dtor |-> 0, freed |-> 1])]
    [] OTHER         -> [p |-> Len(h) + 1,
                         heap |-> Append(h, [type |-> type, constructed |-> TRUE,
                                             alive |-> TRUE, dtor |-> 0, freed |-> 0])]

\* The engine calls a registration's destructor on its userdata.
RunDestructor(h, slot) ==
  IF slot.live /\ slot.xDestroy /\ slot.pApp # 0
    THEN [h EXCEPT ![slot.pApp] = managed_deleter(h[slot.pApp])]
    ELSE h

\* sqlite3_create_function_v2 / sqlite3_create_window_function answering rc:
\* on success the registration replaces the one of the same name, whose
\* destructor the engine calls; on failure the engine calls the destructor
\* passed in.
sqlite3_create_function_v2(h, slot, pApp, xDestroy, rc) ==
  LET new == [live |-> TRUE, pApp |-> pApp, xDestroy |-> xDestroy] IN
  IF rc = ok
    THEN [heap |-> RunDestructor(h, slot), slot |-> new]
    ELSE [heap |-> RunDestructor(h, new), slot |-> slot]

\* sqlite3_create_collation_v2 answering rc: on success as for functions; on
\* failure the engine does not call the destructor passed in.
sqlite3_create_collation_v2(h, slot, pApp, xDestroy, rc) ==
  LET new == [live |-> TRUE, pApp |-> pApp, xDestroy |-> xDestroy] IN
  IF rc = ok
    THEN [heap |-> RunDestructor(h, slot), slot |-> new]
    ELSE [heap |-> h, slot |-> slot]

\* What a registration call returned: the code, the box it made (0 if
\* boxing failed), and whether it reached the engine's entry point.
Returned(call, rc, box, engine_called) ==
  [call |-> call, rc |-> rc, box |-> box, engine_called |-> engine_called]
to_error(rc) == rc

CanRegister == conn = "open" /\ Len(heap) < MaxBoxes
Untouched == UNCHANGED <<conn, query, callable, ncalls, fnptr, aggVars, last, libVars>>

\* register_function(db, name, flags, T &&callable): box the callable,
\* return nomem if that failed, else register the box with deleter(storage).
register_function(mm, rc) ==
  LET storage == make_managed(heap, "callable", mm) IN
  IF storage.p = 0
    THEN /\ heap' = storage.heap
         /\ ret' = Returned("register_function", nomem, 0, FALSE)
         /\ UNCHANGED <<funcs, colls>>
    ELSE LET e == sqlite3_create_function_v2(storage.heap, funcs, storage.p, TRUE, rc) IN
         /\ heap' = e.heap
         /\ funcs' = e.slot
         /\ ret' = Returned("register_function", to_error(rc), storage.p, TRUE)
         /\ UNCHANGED colls

\* create_function<F>(db, name, flag, args...): F is constructed in the box.
create_function(mm, rc) ==
  LET storage == make_managed(heap, "callable", mm) IN
  IF storage.p = 0
    THEN /\ heap' = storage.heap
         /\ ret' = Returned("create_function", nomem, 0, FALSE)
         /\ UNCHANGED <<funcs, colls>>
    ELSE LET e == sqlite3_create_function_v2(storage.heap, funcs, storage.p, TRUE, rc) IN
         /\ heap' = e.heap
         /\ funcs' = e.slot
         /\ ret' = Returned("create_function", to_error(rc), storage.p, TRUE)
         /\ UNCHANGED colls

\* create_aggregate<T>(db, name, flag, args...) for a non-simple T: box the
\* control block, set its initialiser, and register it through
\* sqlite3_create_window_function with ctrl_d = deleter(p).
create_aggregate(mm, rc) ==
  LET p == make_managed(heap, "control", mm) IN
  IF p.p = 0
    THEN /\ heap' = p.heap
         /\ ret' = Returned("create_aggregate", nomem, 0, FALSE)
         /\ UNCHANGED <<funcs, colls>>
    ELSE LET ctrl == p.p
             e == sqlite3_create_function_v2(p.heap, funcs, ctrl, TRUE, rc) IN
         /\ heap' = e.heap
         /\ funcs' = e.slot
         /\ ret' = Returned("create_aggregate", to_error(rc), ctrl, TRUE)
         /\ UNCHANGED colls

\* register_collation(db, name, T &&coll): box the collation object, return
\* nomem if that failed, else register the box with deleter(storage) and
\* return the engine's answer.
register_collation(mm, rc) ==
  LET storage == make_managed(heap, "collation", mm) IN
  IF storage.p = 0
    THEN /\ heap' = storage.heap
         /\ ret' = Returned("register_collation", nomem, 0, FALSE)
         /\ UNCHANGED <<funcs, colls>>
    ELSE LET e == sqlite3_create_collation_v2(storage.heap, colls, storage.p, TRUE, rc) IN
         /\ heap' = e.heap
         /\ colls' = e.slot
         /\ ret' = Returned("register_collation", to_error(rc), storage.p, TRUE)
         /\ UNCHANGED funcs

\* create_collation without the test of the boxed pointer.
create_collation_unchecked(mm, rc) ==
  LET storage == make_managed(heap, "collation", mm)
      e == sqlite3_create_collation_v2(storage.heap, colls, storage.p, TRUE, rc) IN
  /\ heap' = e.heap
  /\ colls' = e.slot
  /\ ret' = Returned("create_collation", to_error(rc), storage.p, TRUE)
  /\ UNCHANGED funcs

\* create_collation<T>(db, name, args...): T is constructed in the box.
create_collation(mm, rc) ==
  LET storage == make_managed(heap, "collation", mm) IN
  IF storage.p = 0
    THEN /\ heap' = storage.heap
         /\ ret' = Returned("create_collation", nomem, 0, FALSE)
         /\ UNCHANGED <<funcs, colls>>
    ELSE LET e == sqlite3_create_collation_v2(storage.heap, colls, storage.p, TRUE, rc) IN
         /\ heap' = e.heap
         /\ colls' = e.slot
         /\ ret' = Returned("create_collation", to_error(rc), storage.p, TRUE)
         /\ UNCHANGED funcs

\* The application registers by value; the engine answers ok or busy.
EngineAnswers == {ok, busy}
RegisterFunction ==
  /\ CanRegister
  /\ \E mm \in Boxing, rc \in EngineAnswers : register_function(mm, rc)
  /\ Untouched
CreateFunction ==
  /\ CanRegister
  /\ \E mm \in Boxing, rc \in EngineAnswers : create_function(mm, rc)
  /\ Untouched
CreateAggregate ==
  /\ CanRegister
  /\ \E mm \in Boxing, rc \in EngineAnswers : create_aggregate(mm, rc)
  /\ Untouched
RegisterCollation ==
  /\ CanRegister
  /\ \E mm \in Boxing, rc \in EngineAnswers : register_collation(mm, rc)
  /\ Untouched
CreateCollation ==
  /\ CanRegister
  /\ \E mm \in Boxing, rc \in EngineAnswers : create_collation(mm, rc)
  /\ Untouched

\* sqlite3_close with no statement left: the engine retires every
\* registration and calls the destructor each one was given.
Close ==
  /\ conn = "open"
  /\ query = NoQuery
  /\ conn' = "closed"
  /\ callable' = managed_deleter(callable)
  /\ control' = NullControl
  /\ heap' = RunDestructor(RunDestructor(heap, funcs), colls)
  /\ funcs' = NoReg
  /\ colls' = NoReg
  /\ UNCHANGED <<query, ncalls, fnptr, aggctx, fed, out, phase, ctor, dtor, last, ret, libVars>>

----------------------------------------------------------------------------
\* The window run: "SELECT agg2(value) OVER (ORDER BY value rows 5 PRECEDING)
\* FROM test" over the rows 1..10 of prepare_data, a single partition (group 1).
WinRows == 10
Preceding == 5

\* For every row the engine steps the row into the frame, removes the row
\* that left the frame (if one did), and reads the value; it finalizes at the
\* end of the rows or after an error.
WinStart == [pc |-> "step", outputs |-> <<>>]
WinRunning == conn = "open" /\ query = [sql |-> "window", state |-> "ready"]

PrepareWin ==
  /\ Prepare("window")
  /\ win = WinStart

WinStep ==
  /\ WinRunning
  /\ win.pc = "step"
  /\ fed[1] < WinRows
  /\ \E allocOk \in AllocChoices(1), t \in Outcome : \E stage \in Stages(t) :
       invoke_agg_step(1, allocOk, t, stage)
  /\ win' = [win EXCEPT !.pc =
               IF IsErrorResult(last'.result) THEN "final"
               ELSE IF fed'[1] - out[1] > Preceding + 1 THEN "inverse"
               ELSE "value"]
  /\ UNCHANGED <<fnVars, control, regVars, ar, buf, cls, txn, bk, bk2, view, st>>

WinInverse ==
  /\ WinRunning
  /\ win.pc = "inverse"
  /\ \E allocOk \in AllocChoices(1), t \in Outcome : \E stage \in Stages(t) :
       invoke_agg_inverse(1, allocOk, t, stage)
  /\ win' = [win EXCEPT !.pc =
               IF IsErrorResult(last'.result) THEN "final" ELSE "value"]
  /\ UNCHANGED <<fnVars, control, regVars, ar, buf, cls, txn, bk, bk2, view, st>>

WinValue ==
  /\ WinRunning
  /\ win.pc = "value"
  /\ \E allocOk \in AllocChoices(1), t \in Outcome :
       invoke_agg_value(1, allocOk, t)
  /\ win' = IF IsErrorResult(last'.result)
              THEN [win EXCEPT !.pc = "final"]
              ELSE [pc |-> IF fed[1] = WinRows THEN "final" ELSE "step",
                    outputs |-> Append(win.outputs, last'.result.v)]
  /\ UNCHANGED <<fnVars, control, regVars, ar, buf, cls, txn, bk, bk2, view, st>>

WinFinal ==
  /\ WinRunning
  /\ win.pc = "final"
  /\ \E allocOk \in AllocChoices(1), t \in Outcome :
       invoke_agg_final(1, allocOk, t)
  /\ win' = [win EXCEPT !.pc = "end"]
  /\ UNCHANGED <<fnVars, control, regVars, ar, buf, cls, txn, bk, bk2, view, st>>

\* sqlite3_finalize of the window statement.
FinalizeWin ==
  /\ WinRunning
  /\ win.pc = "end"
  /\ query' = NoQuery
  /\ FreshGroups
  /\ win' = WinStart
  /\ UNCHANGED <<conn, callable, ncalls, fnptr, control, last, regVars, ar, buf, cls, txn, bk, bk2, view, st>>

----------------------------------------------------------------------------
\* Arity of a registration. trait::arity is the number of SQL-level
\* arguments of the callable, or of T::step for an aggregate.
ArityLimit == 127
MaxExcess == 2        \* how far above the limit the arities tried go
Arities == {0, 1, ArityLimit - 1, ArityLimit} \cup
           {ArityLimit + k : k \in 1..MaxExcess}

\* The registration calls that pass trait::arity to the engine.
FunctionCalls == {"register_function_ptr", "register_function",
                  "create_function", "create_function_stateless"}

\* static_assert(trait::arity <= 127) in the four function registrations;
\* create_aggregate has none. FALSE: the call does not compile.
static_assert_arity(call, arity) == call \in FunctionCalls => arity <= ArityLimit

\* The most arguments the engine accepts for a function
\* (SQLITE_MAX_FUNCTION_ARG of its build): 127, or 1000 in later releases.
EngineLimits == {ArityLimit, 1000}

\* sqlite3_create_function_v2 / sqlite3_create_window_function seen from the
\* nArg argument: more than the engine's limit is misuse; otherwise the
\* engine accepts, or refuses for a reason of its own.
EngineArityAnswer(nArg, limit, accepts) ==
  IF nArg > limit THEN misuse ELSE IF accepts THEN ok ELSE busy

NoAttempt == [call |-> "none", arity |-> 0, compiled |-> FALSE,
              engine_called |-> FALSE, nArg |-> 0, rc |-> ok]
ArStart == [limit |-> 0, registered |-> {}, last |-> NoAttempt]

\* A registration call on a callable of the given arity (boxing succeeds).
RegisterArity(call, arity, limit, accepts) ==
  IF ~static_assert_arity(call, arity)
    THEN ar' = [limit |-> limit, registered |-> ar.registered,
                last |-> [call |-> call, arity |-> arity, compiled |-> FALSE,
                          engine_called |-> FALSE, nArg |-> 0, rc |-> ok]]
    ELSE LET rc == EngineArityAnswer(arity, limit, accepts) IN
         ar' = [limit |-> limit,
                registered |-> IF rc = ok THEN ar.registered \cup {arity}
                                          ELSE ar.registered,
                last |-> [call |-> call, arity |-> arity, compiled |-> TRUE,
                          engine_called |-> TRUE, nArg |-> arity, rc |-> to_error(rc)]]

\* The engine's limit is fixed by its build: the first call meets it.
LimitChoices == IF ar.limit = 0 THEN EngineLimits ELSE {ar.limit}
ArityUntouched == UNCHANGED <<fnVars, aggVars, last, regVars, win, buf, cls, txn, bk, bk2, view, st>>

FunctionArity ==
  /\ conn = "open"
  /\ \E call \in FunctionCalls, arity \in Arities, limit \in LimitChoices,
        accepts \in BOOLEAN : RegisterArity(call, arity, limit, accepts)
  /\ ArityUntouched

AggregateArity ==
  /\ conn = "open"
  /\ \E arity \in Arities, limit \in LimitChoices, accepts \in BOOLEAN :
       RegisterArity("create_aggregate", arity, limit, accepts)
  /\ ArityUntouched

----------------------------------------------------------------------------
\* Placement of a T in a buffer of the foreign allocator.
\* MaxAlign is alignof(std::max_align_t); MallocAlign is the alignment
\* sqlite3_malloc64 guarantees for what it returns.
MaxAlign == 16
MallocAlign == 8
MaxBlocks == 8        \* addresses tried: MallocAlign, 2 * MallocAlign, ...

\* Types by sizeof and alignof: a power-of-two alignment, a size that is a
\* multiple of it.
Aligns == {1, 2, 4, 8, 16, 32, 64}
Types == {[size |-> k * A, align |-> A] : k \in 1..2, A \in Aligns}
Addresses == {MallocAlign * k : k \in 1..MaxBlocks}

\* concept over_aligned: alignof(T) > alignof(std::max_align_t).
over_aligned(T) == T.align > MaxAlign

\* storage_size_v<T>.
storage_size(T) == IF over_aligned(T) THEN T.size + T.align - 1 ELSE T.size

\* x & ~(m - 1u) for a power of two m: the low bits of x are cleared.
ClearLowBits(x, m) == x - (x % m)

\* pointer_cast<T>(storage): static_cast, or for an over-aligned T
\* (addr + alignof(T) - 1u) & ~(alignof(T) - 1u).
pointer_cast(T, storage) ==
  IF over_aligned(T) THEN ClearLowBits(storage + T.align - 1, T.align)
                     ELSE storage

NoBuffer == [T |-> [size |-> 1, align |-> 1], nbytes |-> 0, storage |-> 0, p |-> 0]
PtrUntouched == UNCHANGED <<fnVars, aggVars, last, regVars, win, ar, cls, txn, bk, bk2, view, st>>

\* sqlite3_malloc64(storage_size_v<T>) returns a buffer for a T.
AllocateStorage ==
  /\ buf.storage = 0
  /\ \E T \in Types, a \in Addresses :
       buf' = [T |-> T, nbytes |-> storage_size(T), storage |-> a, p |-> 0]
  /\ PtrUntouched

\* p.get(): the T * recovered from the buffer.
RecoverPointer ==
  /\ buf.storage # 0
  /\ buf.p = 0
  /\ buf' = [buf EXCEPT !.p = pointer_cast(buf.T, buf.storage)]
  /\ PtrUntouched

\* sqlite3_free(storage).
FreeStorage ==
  /\ buf.p # 0
  /\ buf' = NoBuffer
  /\ PtrUntouched

----------------------------------------------------------------------------
\* Classification of result codes. A primary code is 0..28, row or done; an
\* extended code is a primary code with a positive number in the bits above
\* the low eight.
MaxExt == 3           \* extension numbers tried
Primary == (0..28) \cup {row, done}
Extended == {c + 256 * k : c \in Primary, k \in 1..MaxExt}

is_ok(e) == e = ok \/ e = row \/ e = done
\* is_error written as the test for ok alone.
is_error_not_ok(e) == e # ok
is_error(e) == e # ok /\ e # row /\ e # done
is_row(e) == e = row
is_done(e) == e = done

Classified(e) == [e |-> e, is_ok |-> is_ok(e), is_error |-> is_error(e),
                  is_row |-> is_row(e), is_done |-> is_done(e)]
ErrUntouched == UNCHANGED <<fnVars, aggVars, last, regVars, win, ar, buf, txn, bk, bk2, view, st>>

ClassifyPrimary ==
  /\ \E c \in Primary : cls' = Classified(to_error(c))
  /\ ErrUntouched

ClassifyExtended ==
  /\ \E c \in Extended : cls' = Classified(to_error(c))
  /\ ErrUntouched

----------------------------------------------------------------------------
\* class transaction. The object has the fields db and active; log lists the
\* calls made on it, each with the SQL it passed to sqlite3_exec ("" if it
\* passed none) and the code it returned (for the constructor and the
\* destructor, the code sqlite3_exec answered).
MaxOps == 3           \* member calls on one transaction object
Modes == {"DEFERRED", "IMMEDIATE", "EXCLUSIVE"}
Savepoints == {"sp1"}
ExecAnswers == {ok, busy}

NoTransaction == [state |-> "none", db |-> "null", active |-> FALSE, log |-> <<>>]
Called(op, sql, rc) == [op |-> op, sql |-> sql, rc |-> rc]
Logged(t, op, sql, rc) == [t EXCEPT !.log = Append(t.log, Called(op, sql, rc))]

\* is_active(): db && active, ignoring the active flag.
is_active_db_only(t) == t.db # "null"
\* is_active(): db && active.
is_active(t) == t.db # "null" /\ t.active

\* transaction(conn, mode): active is set; with a connection BEGIN is
\* executed, and db is cleared if it fails.
transaction_ctor(c, mode, rc) ==
  IF c # "null"
    THEN [state |-> "live", db |-> IF rc # ok THEN "null" ELSE c, active |-> TRUE,
          log |-> <<Called("transaction", "BEGIN " \o mode \o " TRANSACTION", rc)>>]
    ELSE [state |-> "live", db |-> c, active |-> TRUE,
          log |-> <<Called("transaction", "", ok)>>]

\* A destructor that rolls back whatever the state.
transaction_dtor_always(t, rc) ==
  [Logged(t, "~transaction", "ROLLBACK TRANSACTION", rc) EXCEPT !.state = "destroyed"]
\* ~transaction().
transaction_dtor(t, rc) ==
  IF ~is_active(t)
    THEN [Logged(t, "~transaction", "", ok) EXCEPT !.state = "destroyed"]
    ELSE [Logged(t, "~transaction", "ROLLBACK TRANSACTION", rc)
            EXCEPT !.state = "destroyed"]

\* savepoint(save), release(save), rollback(save).
savepoint(t, save, rc) ==
  IF ~is_active(t) THEN Logged(t, "savepoint", "", misuse)
  ELSE Logged(t, "savepoint", "SAVEPOINT " \o save, to_error(rc))
release(t, save, rc) ==
  IF ~is_active(t) THEN Logged(t, "release", "", misuse)
  ELSE Logged(t, "release", "RELEASE SAVEPOINT " \o save, to_error(rc))
rollback_to(t, save, rc) ==
  IF ~is_active(t) THEN Logged(t, "rollback_to", "", misuse)
  ELSE Logged(t, "rollback_to", "ROLLBACK TO SAVEPOINT " \o save, to_error(rc))

\* A rollback that leaves the transaction active when the engine fails.
rollback_keeps_active(t, rc) ==
  IF ~is_active(t) THEN Logged(t, "rollback", "", misuse)
  ELSE [Logged(t, "rollback", "ROLLBACK TRANSACTION", to_error(rc))
          EXCEPT !.active = IF rc = ok THEN FALSE ELSE t.active]
\* rollback(): the transaction is inactive afterwards whatever the answer.
rollback(t, rc) ==
  IF ~is_active(t) THEN Logged(t, "rollback", "", misuse)
  ELSE [Logged(t, "rollback", "ROLLBACK TRANSACTION", to_error(rc))
          EXCEPT !.active = FALSE]

\* A commit that marks the transaction inactive whatever the answer.
commit_always_inactive(t, rc) ==
  IF ~is_active(t) THEN Logged(t, "commit", "", misuse)
  ELSE [Logged(t, "commit", "COMMIT TRANSACTION", to_error(rc))
          EXCEPT !.active = FALSE]
\* commit(): the transaction is inactive afterwards only if the answer is ok.
commit(t, rc) ==
  IF ~is_active(t) THEN Logged(t, "commit", "", misuse)
  ELSE [Logged(t, "commit", "COMMIT TRANSACTION", to_error(rc))
          EXCEPT !.active = IF rc = ok THEN FALSE ELSE t.active]

TxnUntouched == UNCHANGED <<fnVars, aggVars, last, regVars, win, ar, buf, cls, bk, bk2, view, st>>
CanCall == txn.state = "live" /\ Len(txn.log) <= MaxOps

\* begin_transaction(db, mode), with db possibly null.
BeginTransaction ==
  /\ txn.state # "live"
  /\ \E c \in {"null", "conn"}, mode \in Modes, rc \in ExecAnswers :
       txn' = transaction_ctor(c, mode, rc)
  /\ TxnUntouched
Savepoint ==
  /\ CanCall
  /\ \E save \in Savepoints, rc \in ExecAnswers : txn' = savepoint(txn, save, rc)
  /\ TxnUntouched
Release ==
  /\ CanCall
  /\ \E save \in Savepoints, rc \in ExecAnswers : txn' = release(txn, save, rc)
  /\ TxnUntouched
RollbackTo ==
  /\ CanCall
  /\ \E save \in Savepoints, rc \in ExecAnswers : txn' = rollback_to(txn, save, rc)
  /\ TxnUntouched
Rollback ==
  /\ CanCall
  /\ \E rc \in ExecAnswers : txn' = rollback(txn, rc)
  /\ TxnUntouched
Commit ==
  /\ CanCall
  /\ \E rc \in ExecAnswers : txn' = commit(txn, rc)
  /\ TxnUntouched
\* The transaction object goes out of scope.
DestroyTransaction ==
  /\ txn.state = "live"
  /\ \E rc \in ExecAnswers : txn' = transaction_dtor(txn, rc)
  /\ TxnUntouched

----------------------------------------------------------------------------
\* class backup. The object owns the engine's backup handle in bak (a
\* unique_ptr); left is the number of source pages the engine has still to
\* copy; log lists the calls made on the object, each with the engine entry
\* point it called ("" if none) and the code it returned.
MaxPages == 2         \* pages of the source database
MaxBakOps == 3        \* member calls on one backup object
PageCounts == {-1, 1}
FinishAnswers == {ok, nomem}

NoBackup == [state |-> "none", bak |-> "null", left |-> 0, log |-> <<>>]
BakCalled(op, entry, rc) == [op |-> op, entry |-> entry, rc |-> rc]
BakLogged(b, op, entry, rc) == [b EXCEPT !.log = Append(b.log, BakCalled(op, entry, rc))]

\* prepare_backup(dest, dest_name, source, source_name): an empty backup if
\* sqlite3_backup_init returns null.
prepare_backup(raw_backup, pages) ==
  IF raw_backup = "null"
    THEN [state |-> "live", bak |-> "null", left |-> 0,
          log |-> <<BakCalled("prepare_backup", "sqlite3_backup_init", error)>>]
    ELSE [state |-> "live", bak |-> raw_backup, left |-> pages,
          log |-> <<BakCalled("prepare_backup", "sqlite3_backup_init", ok)>>]

\* sqlite3_backup_step(p, nPage) on a handle: up to nPage pages are copied
\* (all of them if nPage is negative); done once none is left, or busy with
\* nothing copied.
sqlite3_backup_step(left, nPage, locked) ==
  IF locked THEN [left |-> left, rc |-> busy]
  ELSE IF nPage < 0 \/ nPage >= left THEN [left |-> 0, rc |-> done]
  ELSE [left |-> left - nPage, rc |-> ok]

\* step(pages): the handle is passed to the engine as it is; a null handle is
\* answered with misuse by a build with API armor and dereferenced by one
\* without.
step(b, pages, locked, armor) ==
  IF b.bak = "null"
    THEN IF armor THEN BakLogged(b, "step", "sqlite3_backup_step", misuse)
         ELSE [BakLogged(b, "step", "sqlite3_backup_step", error)
                 EXCEPT !.state = "crashed"]
    ELSE LET r == sqlite3_backup_step(b.left, pages, locked)
         IN  [BakLogged(b, "step", "sqlite3_backup_step", to_error(r.rc))
                EXCEPT !.left = r.left]

\* A finish without the test for an empty backup.
finish_unchecked(b, rc) ==
  [BakLogged(b, "finish", "sqlite3_backup_finish", to_error(rc))
     EXCEPT !.bak = "null"]
\* A finish that passes the handle to the engine and keeps it.
finish_no_release(b, rc) ==
  IF b.bak = "null" THEN BakLogged(b, "finish", "", ok)
  ELSE BakLogged(b, "finish", "sqlite3_backup_finish", to_error(rc))
\* finish(): ok if there is no handle; otherwise the handle is released and
\* passed to sqlite3_backup_finish.
finish(b, rc) ==
  IF b.bak = "null" THEN BakLogged(b, "finish", "", ok)
  ELSE [BakLogged(b, "finish", "sqlite3_backup_finish", to_error(rc))
          EXCEPT !.bak = "null"]

\* ~backup(): the deleter passes a handle still owned to sqlite3_backup_finish.
backup_dtor(b, rc) ==
  IF b.bak = "null"
    THEN [BakLogged(b, "~backup", "", ok) EXCEPT !.state = "destroyed"]
    ELSE [BakLogged(b, "~backup", "sqlite3_backup_finish", rc)
            EXCEPT !.state = "destroyed", !.bak = "null"]

\* backup(backup &&other) = default: the handle passes to the new object.
\* A move that leaves the handle in the source as well.
moved_from_keeps_handle(b) == b
moved_from(b) == [b EXCEPT !.bak = "null", !.left = 0]
backup_move_ctor(other) ==
  [state |-> "live", bak |-> other.bak, left |-> other.left,
   log |-> <<BakCalled("backup(backup &&)", "", ok)>>]
\* operator=(backup &&other) = default: unique_ptr resets to the handle
\* released by other, and the deleter gets the handle held before, if any.
backup_move_assign(b, other, rc) ==
  IF b.bak = "null"
    THEN [BakLogged(b, "operator=", "", ok)
            EXCEPT !.bak = other.bak, !.left = other.left]
    ELSE [BakLogged(b, "operator=", "sqlite3_backup_finish", rc)
            EXCEPT !.bak = other.bak, !.left = other.left]

BakUntouched == UNCHANGED <<fnVars, aggVars, last, regVars, win, ar, buf, cls, txn, view, st>>
BakRunning == bk.state # "crashed" /\ bk2.state # "crashed"
BakCallsLeft == Len(bk.log) + Len(bk2.log) <= MaxBakOps
CanCallBak == bk.state = "live" /\ BakRunning /\ BakCallsLeft
CanCallOther == bk2.state = "live" /\ BakRunning /\ BakCallsLeft

\* backup bak; (default constructed, empty).
DefaultBackup ==
  /\ bk.state \in {"none", "destroyed"} /\ bk2.state \in {"none", "destroyed"}
  /\ bk' = [state |-> "live", bak |-> "null", left |-> 0,
            log |-> <<BakCalled("backup", "", ok)>>]
  /\ bk2' = NoBackup
  /\ BakUntouched
PrepareBackup ==
  /\ bk.state \in {"none", "destroyed"} /\ bk2.state \in {"none", "destroyed"}
  /\ \E raw_backup \in {"null", "handle"}, pages \in 0..MaxPages :
       bk' = prepare_backup(raw_backup, pages)
  /\ bk2' = NoBackup
  /\ BakUntouched
StepBackup ==
  /\ CanCallBak
  /\ \E pages \in PageCounts, locked \in BOOLEAN, armor \in BOOLEAN :
       bk' = step(bk, pages, locked, armor)
  /\ UNCHANGED bk2
  /\ BakUntouched
FinishBackup ==
  /\ CanCallBak
  /\ \E rc \in FinishAnswers : bk' = finish(bk, rc)
  /\ UNCHANGED bk2
  /\ BakUntouched
\* The backup object goes out of scope.
DestroyBackup ==
  /\ bk.state = "live" /\ BakRunning
  /\ \E rc \in FinishAnswers : bk' = backup_dtor(bk, rc)
  /\ UNCHANGED bk2
  /\ BakUntouched

\* backup bak3; next to the first object.
DefaultOther ==
  /\ bk.state = "live" /\ bk2.state = "none" /\ BakRunning /\ BakCallsLeft
  /\ bk2' = [state |-> "live", bak |-> "null", left |-> 0,
             log |-> <<BakCalled("backup", "", ok)>>]
  /\ UNCHANGED bk
  /\ BakUntouched
\* backup bak2 = std::move(bak1);
MoveConstruct ==
  /\ bk.state = "live" /\ bk2.state = "none" /\ BakRunning /\ BakCallsLeft
  /\ bk2' = backup_move_ctor(bk)
  /\ bk' = moved_from(bk)
  /\ BakUntouched
\* bak1 = std::move(bak2); and bak2 = std::move(bak1);
MoveAssign ==
  /\ CanCallBak /\ CanCallOther
  /\ \E rc \in FinishAnswers :
       \/ bk' = backup_move_assign(bk, bk2, rc) /\ bk2' = moved_from(bk2)
       \/ bk2' = backup_move_assign(bk2, bk, rc) /\ bk' = moved_from(bk)
  /\ BakUntouched
StepOther ==
  /\ CanCallOther
  /\ \E pages \in PageCounts, locked \in BOOLEAN, armor \in BOOLEAN :
       bk2' = step(bk2, pages, locked, armor)
  /\ UNCHANGED bk
  /\ BakUntouched
FinishOther ==
  /\ CanCallOther
  /\ \E rc \in FinishAnswers : bk2' = finish(bk2, rc)
  /\ UNCHANGED bk
  /\ BakUntouched
DestroyOther ==
  /\ bk2.state = "live" /\ BakRunning
  /\ \E rc \in FinishAnswers : bk2' = backup_dtor(bk2, rc)
  /\ UNCHANGED bk
  /\ BakUntouched

----------------------------------------------------------------------------
\* Text and blob results of an aggregate. The aggregate keeps the text it has
\* been fed in its own storage; its value accessor returns one of the shapes
\* below: an owning object returned by value, or a view or pointer that
\* points into the aggregate's storage or at a literal.
MaxText == 2          \* characters fed to the aggregate
Chars == {"a", "b"}
Literal == <<"l">>
ValueShapes ==
  {[type |-> "int64", points |-> "none"],
   [type |-> "std::string", points |-> "temporary"],
   [type |-> "std::vector<unsigned char>", points |-> "temporary"],
   [type |-> "text_view", points |-> "state"],
   [type |-> "text_view", points |-> "literal"],
   [type |-> "blob_view", points |-> "state"],
   [type |-> "blob_view", points |-> "literal"],
   [type |-> "char const *", points |-> "state"],
   [type |-> "char const *", points |-> "literal"]}

\* deleter(v): SQLITE_STATIC for text_view and blob_view, SQLITE_TRANSIENT for
\* every other type.
deleter(type) ==
  IF type \in {"text_view", "blob_view"} THEN "SQLITE_STATIC" ELSE "SQLITE_TRANSIENT"

NoViewResult == [kind |-> "none", deleter |-> "", held |-> "none", bytes |-> <<>>]
ViewError == [kind |-> "error", deleter |-> "", held |-> "none", bytes |-> <<>>]

\* sqlite3_result_text64 / sqlite3_result_blob64: with SQLITE_TRANSIENT the
\* engine copies the bytes before returning, with SQLITE_STATIC it keeps the
\* pointer it was given.
sqlite3_result_bytes(kind, points, bytes, del) ==
  [kind |-> kind, deleter |-> del,
   held |-> IF del = "SQLITE_TRANSIENT" THEN "copy" ELSE points,
   bytes |-> bytes]

\* bind(ctx, v) for the value v of the given shape.
bind_result(shape, bytes) ==
  CASE shape.type = "int64" ->
         [kind |-> "int", deleter |-> "", held |-> "none", bytes |-> <<>>]
    [] shape.type = "char const *" ->
         sqlite3_result_bytes("text", shape.points, bytes, "SQLITE_STATIC")
    [] shape.type \in {"std::string", "text_view"} ->
         sqlite3_result_bytes("text", shape.points, bytes, deleter(shape.type))
    [] OTHER ->
         sqlite3_result_bytes("blob", shape.points, bytes, deleter(shape.type))

\* The value accessor of the aggregate.
view_value(shape, state) == IF shape.points = "literal" THEN Literal ELSE state.text

NoView == [pc |-> "idle", shape |-> [type |-> "int64", points |-> "none"],
           mem |-> "unalloc", is_initialised |-> FALSE,
           state |-> [text |-> <<>>, alive |-> FALSE],
           result |-> NoViewResult, read |-> "none"]

\* aggdata<T>(ctx) on the view aggregate's context.
view_aggdata(v, allocOk) ==
  IF v.mem = "nomem" \/ (v.mem = "unalloc" /\ ~allocOk)
    THEN [v EXCEPT !.mem = "nomem"]
  ELSE IF v.is_initialised THEN v
  ELSE [v EXCEPT !.mem = "alloc", !.is_initialised = TRUE,
                 !.state = [text |-> <<>>, alive |-> TRUE]]

\* invoke_agg_step<T> for the view aggregate: the character is appended.
view_step(v, c, allocOk) ==
  LET a == view_aggdata(v, allocOk) IN
  IF a.mem = "nomem" THEN [a EXCEPT !.result = ViewError, !.pc = "failed"]
  ELSE [a EXCEPT !.state.text = Append(a.state.text, c)]

\* invoke_agg_final<T> for the view aggregate: bind(ctx, agg->value()) in the
\* try block, then std::destroy_at(agg).
view_final(v, allocOk, t) ==
  LET a == view_aggdata(v, allocOk) IN
  IF a.mem = "nomem" THEN [a EXCEPT !.result = ViewError, !.pc = "finalised"]
  ELSE [a EXCEPT !.result = IF t = "none"
                              THEN bind_result(a.shape, view_value(a.shape, a.state))
                              ELSE ViewError,
                 !.state.alive = FALSE,
                 !.pc = "finalised"]

\* The engine reads the result after the final shim has returned: a pointer
\* into destructed storage is a dangling read.
view_read(v) ==
  [v EXCEPT !.read = IF v.result.held = "state" /\ ~v.state.alive
                       THEN "dangling" ELSE "bytes",
            !.pc = "read"]

ViewUntouched ==
  UNCHANGED <<fnVars, aggVars, last, regVars, win, ar, buf, cls, txn, bk, bk2, st>>
ViewAllocChoices == IF view.mem = "unalloc" THEN BOOLEAN ELSE {TRUE}

\* A statement over an aggregate whose value accessor has the given shape.
PrepareView ==
  /\ view.pc = "idle"
  /\ \E shape \in ValueShapes : view' = [NoView EXCEPT !.pc = "running", !.shape = shape]
  /\ ViewUntouched
StepView ==
  /\ view.pc = "running"
  /\ Len(view.state.text) < MaxText
  /\ \E c \in Chars, allocOk \in ViewAllocChoices : view' = view_step(view, c, allocOk)
  /\ ViewUntouched
FinalView ==
  /\ view.pc \in {"running", "failed"}
  /\ \E allocOk \in ViewAllocChoices, t \in {"none", "exception"} :
       view' = view_final(view, allocOk, t)
  /\ ViewUntouched
ReadView ==
  /\ view.pc = "finalised"
  /\ view' = view_read(view)
  /\ ViewUntouched
FinalizeView ==
  /\ view.pc = "read"
  /\ view' = NoView
  /\ ViewUntouched

----------------------------------------------------------------------------
\* class stmt and stmt_iterator over one prepared statement. The engine's
\* side of the statement: the rows its result has, the step of an execution
\* that fails (failAt, 0 for none), how far the current execution is (eng,
\* pos), the error of the execution (vrc, what sqlite3_reset returns), the
\* parameters bound, and for the properties the number of sqlite3_step calls
\* and what the most recent one returned.
range == 25
MaxStmtRows == 2      \* rows of the result set
MaxStmtCalls == 3     \* calls on one prepared statement
NumParams == 2        \* parameters of the statement
StepFailure == busy

NoIterator == [live |-> FALSE, st |-> "null", rc |-> ok]
NoCall == [op |-> "none", reset |-> FALSE, clear |-> FALSE, nargs |-> 0, ret |-> ok]
NoStmt == [state |-> "none", rows |-> 0, failAt |-> 0,
           eng |-> "ready", pos |-> 0, vrc |-> ok, bound |-> {},
           nsteps |-> 0, lastrc |-> ok, ncalls |-> 0,
           it |-> NoIterator, call |-> NoCall]

\* sqlite3_step: a statement that is ready or running returns the next row,
\* done after the last one, or the failure; a statement that has returned
\* done or a failure and has not been reset is reset automatically, or the
\* call is answered with misuse in a build without automatic reset.
sqlite3_step(s, autoreset) ==
  IF s.eng = "halted" /\ ~autoreset
    THEN [s EXCEPT !.lastrc = misuse, !.nsteps = @ + 1]
    ELSE LET p == IF s.eng = "halted" THEN 0 ELSE s.pos IN
         IF p + 1 = s.failAt
           THEN [s EXCEPT !.eng = "halted", !.pos = p, !.vrc = StepFailure,
                          !.lastrc = StepFailure, !.nsteps = @ + 1]
         ELSE IF p < s.rows
           THEN [s EXCEPT !.eng = "running", !.pos = p + 1, !.vrc = ok,
                          !.lastrc = row, !.nsteps = @ + 1]
         ELSE [s EXCEPT !.eng = "halted", !.pos = p, !.vrc = ok,
                        !.lastrc = done, !.nsteps = @ + 1]

\* sqlite3_reset: the statement is ready again and keeps its bindings; the
\* result is the error of the execution that is reset, ok if it had none.
sqlite3_reset(s) ==
  [s |-> [s EXCEPT !.eng = "ready", !.pos = 0, !.vrc = ok], rc |-> s.vrc]

\* sqlite3_clear_bindings.
sqlite3_clear_bindings(s) == [s |-> [s EXCEPT !.bound = {}], rc |-> ok]

\* sqlite3_bind_*(st, pos, v): misuse unless the statement is ready, range
\* for a position the statement does not have, nomem if the copy of the
\* value cannot be allocated.
sqlite3_bind(s, pos, oom) ==
  IF s.eng # "ready" THEN [s |-> s, rc |-> misuse]
  ELSE IF pos > NumParams THEN [s |-> s, rc |-> range]
  ELSE IF pos = oom THEN [s |-> s, rc |-> nomem]
  ELSE [s |-> [s EXCEPT !.bound = @ \cup {pos}], rc |-> ok]

\* stmt_iterator(s): one step unless the handle is null.
stmt_iterator_ctor(s, handle, autoreset) ==
  IF handle = "null"
    THEN [s EXCEPT !.it = [live |-> TRUE, st |-> "null", rc |-> done]]
    ELSE LET s1 == sqlite3_step(s, autoreset) IN
         [s1 EXCEPT !.it = [live |-> TRUE, st |-> handle, rc |-> s1.lastrc]]

\* operator++: steps if st is set, and clears st when the step is not row.
operator_increment(s, autoreset) ==
  IF s.it.st # "null"
    THEN LET s1 == sqlite3_step(s, autoreset) IN
         [s1 EXCEPT !.it.rc = s1.lastrc,
                    !.it.st = IF s1.lastrc # row THEN "null" ELSE @]
    ELSE s

\* An operator== that takes a cleared st for the end.
equals_sentinel_by_handle(it) == it.st = "null"
\* operator==(stmt_iterator, stmt_sentinel): rc != SQLITE_ROW.
equals_sentinel(it) == it.rc # row

\* stmt_iterator::state().
iterator_state(it) == to_error(it.rc)

\* stmt::begin().
begin(s, autoreset) == stmt_iterator_ctor(s, "handle", autoreset)

\* stmt::clear_bindings().
clear_bindings(s) ==
  LET r == sqlite3_clear_bindings(s) IN [s |-> r.s, rc |-> to_error(r.rc)]

\* stmt::reset(clear_bindings).
reset(s, clear) ==
  LET r == sqlite3_reset(s) IN
  IF is_ok(to_error(r.rc)) /\ clear
    THEN clear_bindings(r.s)
    ELSE [s |-> r.s, rc |-> to_error(r.rc)]

\* The loop of exec: while (it != end()) { ++it; rc = it.state(); }
RECURSIVE ExecLoop(_, _, _)
ExecLoop(s, rc, autoreset) ==
  IF ~equals_sentinel(s.it)
    THEN LET s1 == operator_increment(s, autoreset)
         IN  ExecLoop(s1, iterator_state(s1.it), autoreset)
    ELSE [s |-> s, rc |-> rc]

\* stmt::exec(reset, reset_clear_bindings).
exec(s, rst, clear, autoreset) ==
  LET l == ExecLoop(begin(s, autoreset), done, autoreset)
      e == [l EXCEPT !.s.it = NoIterator]
  IN  IF rst THEN reset(e.s, clear) ELSE e

\* bind_impl<I>(args): binds the arguments from the I-th on, positions I + 1
\* and up, and stops at the first failure.
RECURSIVE bind_impl(_, _, _, _)
bind_impl(s, I, nargs, oom) ==
  IF I = nargs THEN [s |-> s, rc |-> ok]
  ELSE LET r == sqlite3_bind(s, I + 1, oom) IN
       IF to_error(r.rc) # ok THEN [s |-> r.s, rc |-> to_error(r.rc)]
       ELSE bind_impl(r.s, I + 1, nargs, oom)

\* stmt::bind(args...).
bind(s, nargs, oom) == bind_impl(s, 0, nargs, oom)

\* stmt::bind_exec(args...).
bind_exec(s, nargs, oom, autoreset) ==
  LET b == bind(s, nargs, oom) IN
  IF is_ok(b.rc)
    THEN exec(b.s, TRUE, TRUE, autoreset)
    ELSE [s |-> clear_bindings(b.s).s, rc |-> b.rc]

StmtCall(r, op, rst, clear, nargs) ==
  [r.s EXCEPT !.ncalls = @ + 1,
              !.call = [op |-> op, reset |-> rst, clear |-> clear,
                        nargs |-> nargs, ret |-> r.rc]]

StmtUntouched ==
  UNCHANGED <<fnVars, aggVars, last, regVars, win, ar, buf, cls, txn, bk, bk2, view>>
CanCallStmt == st.state = "prepared" /\ st.ncalls < MaxStmtCalls
\* An automatic reset is only in question for a statement that has halted.
AutoResets == IF st.eng = "halted" THEN BOOLEAN ELSE {TRUE}

\* prepare_stmt(db, sql) returning a statement: the engine knows its rows and
\* the step at which an execution fails, if any.
PrepareStmt ==
  /\ st.state = "none"
  /\ \E rows \in 0..MaxStmtRows, failAt \in 0..(MaxStmtRows + 1) :
       /\ failAt <= rows + 1
       /\ st' = [NoStmt EXCEPT !.state = "prepared", !.rows = rows, !.failAt = failAt]
  /\ StmtUntouched
\* auto it = stmt.begin();
BeginStmt ==
  /\ CanCallStmt
  /\ \E autoreset \in AutoResets :
       LET s1 == begin(st, autoreset) IN
       st' = StmtCall([s |-> s1, rc |-> iterator_state(s1.it)], "begin", FALSE, FALSE, 0)
  /\ StmtUntouched
\* ++it;
IncrementStmt ==
  /\ CanCallStmt /\ st.it.live
  /\ \E autoreset \in AutoResets :
       LET s1 == operator_increment(st, autoreset) IN
       st' = StmtCall([s |-> s1, rc |-> iterator_state(s1.it)], "++", FALSE, FALSE, 0)
  /\ StmtUntouched
ExecStmt ==
  /\ CanCallStmt
  /\ \E rst \in BOOLEAN, clear \in BOOLEAN, autoreset \in AutoResets :
       /\ clear => rst
       /\ st' = StmtCall(exec(st, rst, clear, autoreset), "exec", rst, clear, 0)
  /\ StmtUntouched
BindStmt ==
  /\ CanCallStmt
  /\ \E nargs \in 1..NumParams :
       st' = StmtCall(bind(st, nargs, 0), "bind", FALSE, FALSE, nargs)
  /\ StmtUntouched
BindExecStmt ==
  /\ CanCallStmt
  /\ \E nargs \in 0..(NumParams + 1), oom \in 0..NumParams, autoreset \in AutoResets :
       /\ oom <= nargs
       /\ st' = StmtCall([bind_exec(st, nargs, oom, autoreset) EXCEPT !.s.it = NoIterator],
                         "bind_exec", TRUE, TRUE, nargs)
  /\ StmtUntouched
ResetStmt ==
  /\ CanCallStmt
  /\ \E clear \in BOOLEAN :
       st' = StmtCall([reset(st, clear) EXCEPT !.s.it = NoIterator],
                      "reset", TRUE, clear, 0)
  /\ StmtUntouched
\* The statement goes out of scope: sqlite3_finalize.
FinalizeStmt ==
  /\ st.state = "prepared"
  /\ st' = NoStmt
  /\ StmtUntouched

\* The connection of the tests after create_function<func3>(db, "func3", 0, 0),
\* create_function<func2>(db, "func2", flags) and create_aggregate<agg>(db, ...)
\* have returned ok.
Init ==
  /\ conn = "open"
  /\ query = NoQuery
  /\ callable = func3_ctor(0)
  /\ ncalls = 0
  /\ fnptr = "none"
  /\ control = BoxedControl
  /\ aggctx = [g \in Groups |-> Unallocated]
  /\ fed = [g \in Groups |-> 0]
  /\ out = [g \in Groups |-> 0]
  /\ phase = [g \in Groups |-> "idle"]
  /\ ctor = [g \in Groups |-> 0]
  /\ dtor = [g \in Groups |-> 0]
  /\ last = NoInvocation
  /\ heap = <<>>
  /\ funcs = NoReg
  /\ colls = NoReg
  /\ ret = Returned("none", ok, 0, FALSE)
  /\ win = WinStart
  /\ ar = ArStart
  /\ buf = NoBuffer
  /\ cls = Classified(ok)
  /\ txn = NoTransaction
  /\ bk = NoBackup
  /\ bk2 = NoBackup
  /\ view = NoView
  /\ st = NoStmt

\* Every shim, under statements of both kinds.
Next ==
  \/ RegisterPtr
  \/ PrepareFn
  \/ PrepareAgg
  \/ StepUserdata
  \/ StepStateless
  \/ StepDone
  \/ StepAgg
  \/ InverseAgg
  \/ ValueAgg
  \/ FinalAgg
  \/ ResetFn
  \/ ResetAgg
  \/ Finalize
  \/ Close

Spec == Init /\ [][Next]_vars

\* A connection that only runs statements calling scalar functions.
NextFn ==
  \/ RegisterPtr
  \/ PrepareFn
  \/ StepUserdata
  \/ StepStateless
  \/ StepDone
  \/ ResetFn
  \/ Finalize
  \/ Close

SpecFn == Init /\ [][NextFn]_vars

\* A connection that only runs the aggregate statement.
NextAgg ==
  \/ PrepareAgg
  \/ StepAgg
  \/ InverseAgg
  \/ ValueAgg
  \/ FinalAgg
  \/ ResetAgg
  \/ Finalize
  \/ Close

SpecAgg == Init /\ [][NextAgg]_vars

\* A connection on which callables, aggregates and collations are registered
\* by value, replaced, and retired by closing.
NextReg ==
  \/ RegisterFunction
  \/ CreateFunction
  \/ CreateAggregate
  \/ RegisterCollation
  \/ CreateCollation
  \/ Close

SpecReg == Init /\ [][NextReg]_vars

\* The window statement alone, run any number of times.
NextWin ==
  \/ PrepareWin
  \/ WinStep
  \/ WinInverse
  \/ WinValue
  \/ WinFinal
  \/ FinalizeWin

SpecWin == Init /\ [][NextWin]_vars

\* Registrations of callables and aggregates of every arity tried.
NextArity ==
  \/ FunctionArity
  \/ AggregateArity

SpecArity == Init /\ [][NextArity]_vars

\* Buffers for objects of every type tried, at every address tried.
NextPtr ==
  \/ AllocateStorage
  \/ RecoverPointer
  \/ FreeStorage

SpecPtr == Init /\ [][NextPtr]_vars

\* Result codes of every kind are classified.
NextErr ==
  \/ ClassifyPrimary
  \/ ClassifyExtended

SpecErr == Init /\ [][NextErr]_vars

\* Transaction objects, one after the other, under every sequence of calls.
NextTxn ==
  \/ BeginTransaction
  \/ Savepoint
  \/ Release
  \/ RollbackTo
  \/ Rollback
  \/ Commit
  \/ DestroyTransaction

SpecTxn == Init /\ [][NextTxn]_vars

\* Backup objects, one after the other, under every sequence of calls.
NextBak ==
  \/ DefaultBackup
  \/ PrepareBackup
  \/ StepBackup
  \/ FinishBackup
  \/ DestroyBackup
  \/ DefaultOther
  \/ MoveConstruct
  \/ MoveAssign
  \/ StepOther
  \/ FinishOther
  \/ DestroyOther

SpecBak == Init /\ [][NextBak]_vars

\* The aggregate with a text or blob result, for every shape of its value.
NextView ==
  \/ PrepareView
  \/ StepView
  \/ FinalView
  \/ ReadView
  \/ FinalizeView

SpecView == Init /\ [][NextView]_vars

\* One prepared statement at a time, under every sequence of calls.
NextStmt ==
  \/ PrepareStmt
  \/ BeginStmt
  \/ IncrementStmt
  \/ ExecStmt
  \/ BindStmt
  \/ BindExecStmt
  \/ ResetStmt
  \/ FinalizeStmt

SpecStmt == Init /\ [][NextStmt]_vars

----------------------------------------------------------------------------
\* Properties.

\* A shim ran for group g in this step: the group left "idle" or moved on.
ShimRan(g) == AggRunning /\ query' = query /\ phase'[g] # phase[g] /\ phase'[g] # "idle"

\* C1: for a non-simple aggregate type the constructor of T runs at most
\* once per group: the first shim invocation that obtains a buffer and the
\* control block constructs the instance and sets the initialised flag, and
\* every later invocation for that group finds the flag set and constructs
\* nothing.
C1_ConstructedOncePerGroup ==
  \A g \in Groups :
    /\ ctor[g] <= 1
    /\ (ctor[g] = 1) <=> aggctx[g].is_initialised
    /\ (aggctx[g].state = "alloc" /\ control.boxed) => ctor[g] = 1

C1_Witness ==
  \E g \in Groups :
    /\ last.shim = "final" /\ last.id = g /\ ~last.state_null
    /\ fed[g] = MaxRows /\ out[g] >= 1
    /\ ctor[g] = 1

\* C2: the destructor of a group's instance has not run after any number of
\* step, inverse and value invocations, and has run exactly once after the
\* final shim: only the final shim destructs, and the object is alive
\* exactly between its construction and that destruction.
C2_DestroyedOnlyByFinal ==
  \A g \in Groups :
    /\ dtor[g] = IF phase[g] = "done" /\ aggctx[g].is_initialised THEN 1 ELSE 0
    /\ aggctx[g].instance.alive <=> (ctor[g] = 1 /\ dtor[g] = 0)

C2_Witness ==
  /\ last.shim = "final" /\ ~last.state_null
  /\ fed[last.id] >= 1
  /\ dtor[last.id] = 1
  /\ \E h \in Groups : phase[h] = "active" /\ ctor[h] = 1 /\ dtor[h] = 0

\* C3: in every shim, whatever the try block throws is turned into an error
\* result: a thrown error enum into that code, a std::exception into its
\* what() message, a std::error_code into its message(), anything else into
\* the generic error code. No value result is produced, no exception leaves
\* the shim, and the statement's step does not return a row.
C3_ExceptionsBecomeErrorResults ==
  /\ ~last.escaped
  /\ last.thrown = "error" => last.result = ErrorCode(ThrownCode)
  /\ last.thrown = "exception" => last.result = ErrorMsg(ThrownWhat)
  /\ last.thrown = "error_code" => last.result = ErrorMsg(ThrownMessage)
  /\ last.thrown = "other" => last.result = ErrorCode(error)
  /\ last.thrown # "none" => query.state \notin {"row", "done"}

C3_Witness ==
  /\ last.shim = "final"
  /\ last.thrown = "other"
  /\ last.result = ErrorCode(error)
  /\ ncalls >= 1

\* C4: when the lookup of the per-group state yields null in the step,
\* inverse, value or final shim, the shim leaves the out-of-memory error on
\* the context and returns: the user's method is not invoked, and nothing
\* is constructed or destructed.
C4_NullStateShortCircuits ==
  [][\A g \in Groups :
       (ShimRan(g) /\ (aggctx'[g].state # "alloc" \/ ~control.boxed)) =>
         /\ last'.id = g
         /\ last'.state_null
         /\ last'.result = ErrorCode(nomem)
         /\ ~last'.invoked
         /\ ctor' = ctor
         /\ dtor' = dtor
         /\ aggctx'[g].instance = aggctx[g].instance
         /\ ~aggctx'[g].is_initialised]_vars

C4_Witness ==
  /\ last.shim = "final"
  /\ last.state_null
  /\ last.result = ErrorCode(nomem)
  /\ phase[last.id] = "done"
  /\ ctor[last.id] = 0 /\ dtor[last.id] = 0

\* C5: when the stateful-userdata shim recovers a null pointer from the
\* context it reports the out-of-memory error and does not invoke the
\* callable, rather than dereferencing the null pointer.
C5_NullCallableReportsNomem ==
  (last.shim = "userdata" /\ last.state_null) =>
    /\ last.result = ErrorCode(nomem)
    /\ ~last.invoked
    /\ ~last.ub
    /\ conn # "crashed"

\* C6: when boxing the object fails in a by-value registration, the call
\* returns the out-of-memory error without reaching the engine's entry
\* point: the engine's registrations stay as they were, and no registration
\* ever carries a missing object.
C6_Registered(slot) == slot.live => (slot.pApp # 0 /\ heap[slot.pApp].alive)
C6_BoxingFailureReturnsNomem ==
  /\ [](/\ (ret.call # "none" /\ ret.box = 0) => (ret.rc = nomem /\ ~ret.engine_called)
        /\ C6_Registered(funcs)
        /\ C6_Registered(colls))
  /\ [][(conn' = conn /\ ret'.call # "none" /\ ret'.box = 0) =>
          (funcs' = funcs /\ colls' = colls)]_vars

C6_Witness ==
  /\ ret.call = "create_collation" /\ ret.rc = nomem /\ ret.box = 0
  /\ colls.live /\ funcs.live
  /\ Len(heap) >= 1 /\ ~heap[Len(heap)].constructed

\* C7: a boxed callable or control block is destroyed and freed exactly
\* once: it is untouched while its registration is live, and the engine's
\* destructor call has destroyed and freed it once as soon as it is not
\* (the registration failed, was replaced, or the connection was closed).
C7_FunctionBoxFreedOnce ==
  \A i \in 1..Len(heap) :
    (heap[i].type \in {"callable", "control"} /\ heap[i].constructed) =>
      IF funcs.live /\ funcs.pApp = i
        THEN heap[i].alive /\ heap[i].dtor = 0 /\ heap[i].freed = 0
        ELSE ~heap[i].alive /\ heap[i].dtor = 1 /\ heap[i].freed = 1

C7_Witness ==
  /\ conn = "closed"
  /\ Len(heap) >= 3
  /\ \A i \in 1..3 : heap[i].type \in {"callable", "control"} /\ heap[i].constructed
                     /\ heap[i].freed = 1
  /\ ret.rc = busy /\ ret.box = 3

\* C8: a boxed collation object is destroyed and freed exactly once on
\* every path, the failure of the engine's registration call included.
C8_CollationBoxFreedOnce ==
  \A i \in 1..Len(heap) :
    (heap[i].type = "collation" /\ heap[i].constructed) =>
      IF colls.live /\ colls.pApp = i
        THEN heap[i].alive /\ heap[i].dtor = 0 /\ heap[i].freed = 0
        ELSE ~heap[i].alive /\ heap[i].dtor = 1 /\ heap[i].freed = 1

\* C9: a function object registered by value keeps its state from one
\* invocation to the next, across a reset of the statement too: the n-th
\* call adds n to its argument. It is destroyed and freed exactly once, when
\* the connection is closed, not by an invocation, a reset or a finalize.
C9_StatefulCallablePersists ==
  /\ callable.call_count = ncalls
  /\ (last.shim = "userdata" /\ last.fn = "func3" /\ last.result.kind = "value") =>
       last.result.v - ncalls \in Args
  /\ callable.dtor = IF conn = "closed" THEN 1 ELSE 0
  /\ callable.freed = callable.dtor
  /\ callable.alive <=> conn # "closed"

C9_Witness ==
  /\ conn = "closed"
  /\ ncalls = MaxCalls
  /\ callable.call_count = MaxCalls
  /\ callable.dtor = 1
  /\ last.result = ValueResult(42 + MaxCalls)

\* C10: each group has its own instance: a group's instance holds the fold
\* of the arguments the engine passed for that group alone, the value and
\* final shims report it, a shim invocation for one group leaves every other
\* group's buffer alone, and the shims only read the control block.
C10_GroupsAreIsolated ==
  /\ [](/\ \A g \in Groups :
             aggctx[g].is_initialised =>
               aggctx[g].instance.sum = FrameSum(g, out[g], fed[g])
        /\ (last.shim \in {"value", "final"} /\ last.result.kind = "value"
              /\ phase[last.id] # "idle") =>
             last.result.v = FrameSum(last.id, out[last.id], fed[last.id]))
  /\ [][(AggRunning /\ query' = query /\ conn' = conn
           /\ \E g \in Groups : phase'[g] # "idle") =>
          /\ control' = control
          /\ \A h \in Groups :
               (fed'[h] = fed[h] /\ out'[h] = out[h] /\ phase'[h] = phase[h]) =>
                 (aggctx'[h] = aggctx[h] /\ ctor'[h] = ctor[h] /\ dtor'[h] = dtor[h])]_vars

C10_Witness ==
  /\ phase[1] = "done" /\ phase[2] = "done"
  /\ fed[1] = 3 /\ fed[2] = 3 /\ out[1] = 0 /\ out[2] = 0
  /\ aggctx[1].instance.sum = 6
  /\ aggctx[2].instance.sum = 15
  /\ last.shim = "final" /\ last.id = 2 /\ last.result = ValueResult(15)

\* The sum of the rows in the frame of row k: rows k - Preceding .. k.
WindowSum(k) == FrameSum(1, IF k > Preceding + 1 THEN k - Preceding - 1 ELSE 0, k)

\* C11: over a sliding frame the step shim is applied once for every row
\* entering the frame and the inverse shim once for every row leaving it, on
\* one instance, so the value read after each row is the sum of the rows in
\* the frame: over 1..10 with a 6-row window the values are 1,3,6,10,15,21
\* and then 27,33,39,45.
C11_SlidingWindowSums ==
  /\ \A k \in 1..Len(win.outputs) : win.outputs[k] = WindowSum(k)
  /\ ctor[1] <= 1
  /\ win.pc = "step" =>
       /\ fed[1] = Len(win.outputs)
       /\ out[1] = IF fed[1] > Preceding + 1 THEN fed[1] - Preceding - 1 ELSE 0
  /\ Len(win.outputs) = WinRows =>
       win.outputs = <<1, 3, 6, 10, 15, 21, 27, 33, 39, 45>>

C11_Witness ==
  /\ win.pc = "end"
  /\ win.outputs = <<1, 3, 6, 10, 15, 21, 27, 33, 39, 45>>
  /\ fed[1] = 10 /\ out[1] = 4
  /\ ctor[1] = 1 /\ dtor[1] = 1

\* C12: when the final shim is the first shim invoked for a group (no row
\* was ever stepped), it constructs the state from the registration's
\* constructor arguments, reports the value of that fresh state (0 for the
\* sum), and destructs the state exactly once.
C12_FinalFirstConstructsAndDestroys ==
  [][\A g \in Groups :
       (ShimRan(g) /\ phase[g] = "idle" /\ phase'[g] = "done"
          /\ aggctx'[g].state = "alloc") =>
         /\ last'.shim = "final" /\ last'.id = g /\ ~last'.state_null
         /\ ctor[g] = 0 /\ ctor'[g] = 1
         /\ dtor[g] = 0 /\ dtor'[g] = 1
         /\ aggctx'[g].is_initialised
         /\ ~aggctx'[g].instance.alive
         /\ last'.thrown = "none" => last'.result = ValueResult(0)]_vars

C12_Witness ==
  /\ last.shim = "final" /\ last.thrown = "none" /\ ~last.state_null
  /\ last.result = ValueResult(0)
  /\ phase[last.id] = "done" /\ fed[last.id] = 0
  /\ ctor[last.id] = 1 /\ dtor[last.id] = 1
  /\ \A h \in Groups \ {last.id} : phase[h] = "idle" /\ ctor[h] = 0

\* C13: no registration call on a callable or aggregate whose arity exceeds
\* 127 returns ok; a registration of arity 0..127 reaches the engine with
\* exactly that arity, and returns ok when the engine accepts it.
C13_ArityBound ==
  /\ (ar.last.compiled /\ ar.last.arity > ArityLimit) => ar.last.rc # ok
  /\ (ar.last.call # "none" /\ ar.last.arity <= ArityLimit) =>
       (ar.last.compiled /\ ar.last.engine_called /\ ar.last.nArg = ar.last.arity)
  /\ \A n \in ar.registered : n <= ArityLimit

\* C14: make_managed never leaks. If the allocation fails nothing is
\* allocated or constructed and the pointer is empty; if T's constructor
\* throws the buffer is freed exactly once and the pointer is empty; if
\* construction succeeds the buffer is returned alive and not freed.
C14_Outcome(mm) ==
  LET r == make_managed(heap, "callable", mm)
      n == Len(heap) + 1
  IN CASE mm = "nomem" -> r.p = 0 /\ r.heap = heap
       [] mm = "throws" ->
            /\ r.p = 0
            /\ Len(r.heap) = n /\ SubSeq(r.heap, 1, n - 1) = heap
            /\ ~r.heap[n].constructed /\ ~r.heap[n].alive
            /\ r.heap[n].freed = 1 /\ r.heap[n].dtor = 0
       [] OTHER ->
            /\ r.p = n
            /\ Len(r.heap) = n /\ SubSeq(r.heap, 1, n - 1) = heap
            /\ r.heap[n].constructed /\ r.heap[n].alive
            /\ r.heap[n].freed = 0 /\ r.heap[n].dtor = 0
C14_MakeManagedNeverLeaks ==
  /\ \A mm \in Boxing : C14_Outcome(mm)
  /\ \A i \in 1..Len(heap) :
       ~heap[i].constructed =>
         (heap[i].freed = 1 /\ heap[i].dtor = 0 /\ ~heap[i].alive)
  /\ (ret.call # "none" /\ ret.box # 0) => heap[ret.box].constructed

C14_Witness ==
  /\ Len(heap) >= 2
  /\ heap[1].constructed /\ heap[1].alive /\ heap[1].freed = 0
  /\ ~heap[Len(heap)].constructed /\ heap[Len(heap)].freed = 1
  /\ ret.box = 0 /\ ret.rc = nomem

\* C15: for every type T of size s and power-of-two alignment A, and every
\* address a the foreign allocator may return for storage_size<T> bytes,
\* pointer_cast<T>(a) is a multiple of A, is at least a, and leaves room for
\* the object: pointer_cast<T>(a) + s <= a + storage_size<T>. storage_size is
\* s and pointer_cast the identity unless A exceeds the maximum fundamental
\* alignment; then storage_size is s + A - 1 and the address is rounded up
\* to the next multiple of A.
C15_PointerCastAligned ==
  buf.p # 0 =>
    LET A == buf.T.align
        sz == buf.T.size
        a == buf.storage
    IN /\ buf.p % A = 0
       /\ buf.p >= a
       /\ buf.p + sz <= a + buf.nbytes
       /\ buf.nbytes = IF A > MaxAlign THEN sz + A - 1 ELSE sz
       /\ A <= MaxAlign => buf.p = a
       /\ A > MaxAlign => buf.p - a < A

\* C16: for every code e, primary or extended: is_ok(e) holds exactly when
\* e is ok, row or done; is_error(e) is the negation of is_ok(e); is_row(e)
\* holds exactly for row and is_done(e) exactly for done, and each implies
\* is_ok(e).
C16_Classification ==
  /\ cls.is_ok <=> cls.e \in {ok, row, done}
  /\ cls.is_error <=> ~cls.is_ok
  /\ cls.is_row <=> cls.e = row
  /\ cls.is_done <=> cls.e = done
  /\ cls.is_row => cls.is_ok
  /\ cls.is_done => cls.is_ok

C16_Witness ==
  /\ cls.e = row + 256
  /\ cls.is_error /\ ~cls.is_ok /\ ~cls.is_row

\* A member call or the destructor ran on the transaction in this step.
TxnCalled == txn.state = "live" /\ Len(txn'.log) = Len(txn.log) + 1
TxnInactive == txn.db = "null" \/ ~txn.active
TxnLast == txn.log[Len(txn.log)]
TxnNext == txn'.log[Len(txn'.log)]

\* C17: on a transaction that is not active (null connection, BEGIN failed,
\* committed, or rolled back), savepoint, release, rollback(name), rollback()
\* and commit() return misuse, pass no SQL to the engine and leave the
\* transaction's state unchanged.
C17_InactiveTransactionIsMisuse ==
  [][(TxnCalled /\ TxnInactive /\ txn'.state = "live") =>
       /\ TxnNext.rc = misuse
       /\ TxnNext.sql = ""
       /\ txn'.db = txn.db
       /\ txn'.active = txn.active]_vars

C17_Witness ==
  /\ txn.state = "live" /\ txn.db = "conn" /\ ~txn.active
  /\ Len(txn.log) = 3
  /\ txn.log[2].op = "commit" /\ txn.log[2].rc = ok
  /\ txn.log[3].op = "savepoint" /\ txn.log[3].rc = misuse /\ txn.log[3].sql = ""

\* C18: when a transaction object is destroyed, ROLLBACK TRANSACTION is
\* issued if and only if the transaction is still active: not after a
\* successful commit or a rollback, and not when BEGIN failed or the
\* connection is null.
C18_DestructorRollsBackIffActive ==
  [][(TxnCalled /\ txn'.state = "destroyed") =>
       /\ TxnNext.op = "~transaction"
       /\ TxnNext.sql = IF txn.db # "null" /\ txn.active
                          THEN "ROLLBACK TRANSACTION" ELSE ""]_vars

C18_Witness ==
  /\ txn.state = "destroyed"
  /\ Len(txn.log) = 3
  /\ txn.log[1].rc = ok /\ txn.log[1].sql = "BEGIN DEFERRED TRANSACTION"
  /\ txn.log[2].op = "savepoint" /\ txn.log[2].rc = ok
  /\ txn.log[3].op = "~transaction" /\ txn.log[3].sql = "ROLLBACK TRANSACTION"

\* C19: commit() on an active transaction issues COMMIT and marks the
\* transaction inactive only if the engine answers ok; a failed COMMIT
\* returns the failure code and leaves the transaction active, so a later
\* commit(), rollback() or destruction still acts on it. rollback() on an
\* active transaction issues ROLLBACK and marks it inactive whatever the
\* engine answers.
C19_CommitKeepsActiveOnFailure ==
  [][(TxnCalled /\ ~TxnInactive) =>
       /\ TxnNext.op = "commit" =>
            /\ TxnNext.sql = "COMMIT TRANSACTION"
            /\ txn'.active <=> TxnNext.rc # ok
            /\ txn'.db = txn.db
       /\ TxnNext.op = "rollback" =>
            /\ TxnNext.sql = "ROLLBACK TRANSACTION"
            /\ ~txn'.active
       /\ TxnNext.op = "~transaction" => TxnNext.sql = "ROLLBACK TRANSACTION"]_vars

C19_Witness ==
  /\ Len(txn.log) = 4
  /\ txn.log[2].op = "commit" /\ txn.log[2].rc = busy
  /\ txn.log[3].op = "commit" /\ txn.log[3].rc = ok
  /\ txn.log[3].sql = "COMMIT TRANSACTION"
  /\ txn.log[4].op = "~transaction" /\ txn.log[4].sql = ""

\* finish() ran in this step on a backup that finish() had already finished.
BakFinishedBefore ==
  \E i \in 1..Len(bk.log) : bk.log[i].op = "finish" /\ bk.log[i].entry # ""
BakFinishAgain ==
  /\ bk.state = "live" /\ bk'.state = "live"
  /\ Len(bk'.log) = Len(bk.log) + 1
  /\ bk'.log[Len(bk'.log)].op = "finish"
  /\ BakFinishedBefore
BakFinishCalls(log) ==
  Cardinality({i \in 1..Len(log) : log[i].entry = "sqlite3_backup_finish"})

\* C20 as stated: finish() on a backup that has already been finished returns
\* misuse and does not call the engine's backup-finish entry point again.
C20_FinishAgainIsMisuse ==
  [][BakFinishAgain =>
       /\ bk'.log[Len(bk'.log)].rc = misuse
       /\ bk'.log[Len(bk'.log)].entry = ""]_vars

\* C20 as amended: finish() on a backup that has already been finished
\* returns ok and does not call the engine's backup-finish entry point again.
C20_FinishAgainIsOk ==
  [][BakFinishAgain =>
       /\ bk'.log[Len(bk'.log)].rc = ok
       /\ bk'.log[Len(bk'.log)].entry = ""
       /\ BakFinishCalls(bk'.log) = 1]_vars

C20_Witness ==
  /\ bk.state = "live" /\ bk.bak = "null"
  /\ Len(bk.log) = 4
  /\ bk.log[2].op = "step" /\ bk.log[2].rc = done
  /\ bk.log[3].op = "finish" /\ bk.log[3].entry = "sqlite3_backup_finish"
  /\ bk.log[4].op = "finish" /\ bk.log[4].entry = "" /\ bk.log[4].rc = ok

\* finish() ran on the backup object b in this step, leaving it as bn.
BakFinishRan(b, bn) ==
  /\ b.state = "live" /\ bn.state = "live"
  /\ Len(bn.log) = Len(b.log) + 1
  /\ bn.log[Len(bn.log)].op = "finish"
BakFinishSafe(b, bn) ==
  BakFinishRan(b, bn) =>
    LET call == bn.log[Len(bn.log)]
    IN  IF b.bak = "null"
          THEN call.entry = "" /\ call.rc = ok /\ bn.bak = "null"
          ELSE /\ call.entry = "sqlite3_backup_finish"
               /\ call.rc \in FinishAnswers
               /\ bn.bak = "null"

\* C21: finish() on an empty backup (default-constructed, moved-from, or one
\* whose preparation failed) returns ok and does not call the engine; finish()
\* on a backup holding a handle returns the result of the engine's
\* backup-finish and leaves the backup empty.
C21_FinishOnEmptyIsSafe ==
  [][BakFinishSafe(bk, bk') /\ BakFinishSafe(bk2, bk2')]_vars

\* finish() on a moved-from backup, whose handle the other object now holds.
C21_Witness ==
  /\ bk.state = "live" /\ bk.bak = "null"
  /\ bk2.state = "live" /\ bk2.bak = "handle"
  /\ Len(bk.log) = 2
  /\ bk.log[1].op = "prepare_backup" /\ bk.log[1].rc = ok
  /\ bk.log[2].op = "finish" /\ bk.log[2].entry = "" /\ bk.log[2].rc = ok

\* The handle came from a successful sqlite3_backup_init.
BakObtained ==
  /\ bk.log # <<>>
  /\ bk.log[1].op = "prepare_backup" /\ bk.log[1].rc = ok
BakFinishTotal == BakFinishCalls(bk.log) + BakFinishCalls(bk2.log)
BakAllDestroyed == bk.state = "destroyed" /\ bk2.state \in {"none", "destroyed"}

\* C28: for a handle obtained from a successful initialisation, over any
\* sequence of step, finish, move construction, move assignment and
\* destruction, the engine's backup-finish is never called twice with it, it
\* is called only while or after some object held it, and once the objects
\* involved are destroyed it has been called exactly once.
C28_FinishCalledExactlyOnce ==
  /\ BakFinishTotal <= 1
  /\ BakObtained /\ BakAllDestroyed => BakFinishTotal = 1
  /\ BakObtained /\ BakFinishTotal = 0 /\ BakRunning =>
       (bk.bak = "handle") # (bk2.bak = "handle")
  /\ BakFinishTotal = 1 => bk.bak = "null" /\ bk2.bak = "null"

\* The handle was finished by a move assignment over the object holding it.
C28_Witness ==
  /\ BakObtained /\ BakAllDestroyed
  /\ bk2.state = "destroyed"
  /\ Len(bk.log) = 3
  /\ bk.log[2].op = "operator=" /\ bk.log[2].entry = "sqlite3_backup_finish"
  /\ bk.log[3].op = "~backup" /\ bk.log[3].entry = ""
  /\ BakFinishTotal = 1

\* step() ran on the backup object b in this step, leaving it as bn.
BakStepRan(b, bn) ==
  /\ b.state = "live"
  /\ Len(bn.log) = Len(b.log) + 1
  /\ bn.log[Len(bn.log)].op = "step"
BakStepGuarded(b, bn) ==
  BakStepRan(b, bn) /\ b.bak = "null" => bn.log[Len(bn.log)].entry = ""

\* C29: the backup wrapper never calls an engine backup entry point with a
\* null handle or with a handle already passed to backup-finish: step() on an
\* empty, moved-from or already finished backup does not reach the engine's
\* backup-step entry point.
C29_StepNeverReachesEngineWithNull ==
  [][BakStepGuarded(bk, bk') /\ BakStepGuarded(bk2, bk2')]_vars

\* The i-th call on the transaction object ended the transaction.
TxnTerminated(i) ==
  \/ txn.log[i].sql = "COMMIT TRANSACTION" /\ txn.log[i].rc = ok
  \/ txn.log[i].sql = "ROLLBACK TRANSACTION"

\* C27: once a transaction object has issued a COMMIT that returned ok or any
\* ROLLBACK TRANSACTION, no later member call and not the destructor issues
\* another SQL statement; so at most one terminating statement takes effect
\* per transaction object.
C27_NoSqlAfterTermination ==
  /\ \A i, j \in 1..Len(txn.log) : i < j /\ TxnTerminated(i) => txn.log[j].sql = ""
  /\ Cardinality({i \in 1..Len(txn.log) : TxnTerminated(i)}) <= 1

\* A ROLLBACK the engine refused, then commit() and the destructor.
C27_Witness ==
  /\ txn.state = "destroyed"
  /\ Len(txn.log) = 4
  /\ txn.log[2].op = "rollback" /\ txn.log[2].rc = busy
  /\ txn.log[2].sql = "ROLLBACK TRANSACTION"
  /\ txn.log[3].op = "commit" /\ txn.log[3].sql = "" /\ txn.log[3].rc = misuse
  /\ txn.log[4].op = "~transaction" /\ txn.log[4].sql = ""

\* A step, inverse or value shim of group g threw in this step.
AggThrew(g) ==
  /\ ShimRan(g) /\ phase'[g] = "failed"
  /\ last'.id = g /\ ~last'.state_null /\ last'.thrown # "none"
\* The final shim of group g ran in this step on a constructed or
\* constructible state.
AggFinalRan(g) ==
  /\ ShimRan(g) /\ phase'[g] = "done"
  /\ last'.shim = "final" /\ last'.id = g /\ ~last'.state_null

\* C26: a throwing user method never disturbs the group lifecycle. After
\* step, inverse or value throws, the group's state is constructed, its
\* initialised flag is set and nothing was destructed; the final shim that
\* follows constructs nothing again and destructs the state exactly once; when
\* value() throws inside the final shim an error is left on the context and
\* the state is still destructed exactly once; so every constructed state has
\* been destructed exactly once as soon as final has run for its group.
C26_ThrowKeepsLifecycle ==
  /\ [](\A g \in Groups :
          (phase[g] = "done" /\ ctor[g] = 1) =>
             dtor[g] = 1 /\ ~aggctx[g].instance.alive)
  /\ [][\A g \in Groups :
          /\ AggThrew(g) =>
               /\ last'.shim \in {"step", "inverse", "value"}
               /\ IsErrorResult(last'.result)
               /\ aggctx'[g].is_initialised /\ aggctx'[g].instance.alive
               /\ ctor'[g] = 1 /\ dtor'[g] = 0
          /\ (AggFinalRan(g) /\ phase[g] = "failed" /\ aggctx[g].is_initialised) =>
               /\ ctor'[g] = ctor[g]
               /\ dtor[g] = 0 /\ dtor'[g] = 1
               /\ ~aggctx'[g].instance.alive
          /\ (AggFinalRan(g) /\ last'.thrown # "none") =>
               /\ IsErrorResult(last'.result)
               /\ ctor'[g] = 1 /\ dtor'[g] = 1
               /\ ~aggctx'[g].instance.alive]_vars

\* value() threw inside the final shim of a group that had been stepped.
C26_Witness ==
  /\ last.shim = "final" /\ last.thrown = "exception" /\ ~last.state_null
  /\ last.result = ErrorMsg(ThrownWhat)
  /\ phase[last.id] = "done" /\ fed[last.id] = 2
  /\ ctor[last.id] = 1 /\ dtor[last.id] = 1

\* C25: for every result type the value accessor may return, a non-owning
\* text or blob view into the aggregate's own storage included, the result
\* the final shim leaves on the context is still valid after the shim has
\* destructed the group's state: the engine holds no un-copied reference into
\* destructed state.
C25_ResultOutlivesState ==
  view.pc \in {"finalised", "read"} =>
    /\ ~(view.result.held = "state" /\ ~view.state.alive)
    /\ view.read # "dangling"

\* The call named op was made on the statement in this step.
StmtRan(op) == st.state = "prepared" /\ st'.ncalls = st.ncalls + 1 /\ st'.call.op = op

\* C22: exec with reset = false steps the statement until a step returns
\* something other than row and returns the result of the execution: done
\* when the statement ran to completion, and the failing step's code when a
\* step fails, whichever step that is, the very first one included.
C22_ExecReturnsResultOfExecution ==
  [][(StmtRan("exec") /\ ~st'.call.reset) =>
       /\ st'.nsteps > st.nsteps
       /\ st'.lastrc # row
       /\ st'.call.ret = st'.lastrc]_vars

\* C23: bind_exec: if binding a value fails the statement is not executed,
\* its bindings are cleared and the binding error is returned; otherwise the
\* statement is executed, then reset and its bindings cleared whether the
\* execution succeeded or failed; after bind_exec the statement never retains
\* bindings.
C23_BindExecLeavesNoBindings ==
  [][StmtRan("bind_exec") =>
       /\ st'.bound = {}
       /\ st'.nsteps = st.nsteps => st'.call.ret \in {misuse, range, nomem}
       /\ st'.nsteps > st.nsteps => st'.eng = "ready"]_vars

\* C24: an iterator of a prepared statement equals the sentinel exactly when
\* the most recent step did not return row; begin() performs exactly one
\* step, each increment of an iterator that is not at the end performs
\* exactly one step, state() is the status of the most recent step (row while
\* a row is available, done after the last row), and for an empty result set
\* begin() already equals end().
C24_IteratorFollowsLastStep ==
  /\ [](st.it.live =>
          /\ equals_sentinel(st.it) <=> st.lastrc # row
          /\ iterator_state(st.it) = st.lastrc)
  /\ [][/\ StmtRan("begin") =>
             /\ st'.nsteps = st.nsteps + 1
             /\ (st.eng = "ready" /\ st.rows = 0 /\ st.failAt = 0) =>
                  equals_sentinel(st'.it) /\ iterator_state(st'.it) = done
        /\ (StmtRan("++") /\ ~equals_sentinel(st.it)) =>
             /\ st'.nsteps = st.nsteps + 1
             /\ st.failAt = 0 =>
                  iterator_state(st'.it) = IF st.pos < st.rows THEN row ELSE done]_vars

\* Two rows iterated to the end: begin, ++, ++.
C24_Witness ==
  /\ st.rows = 2 /\ st.failAt = 0
  /\ st.call.op = "++" /\ st.ncalls = 3 /\ st.nsteps = 3
  /\ st.it.live /\ equals_sentinel(st.it) /\ iterator_state(st.it) = done

\* C30: incrementing an iterator that already equals the sentinel does not
\* step the statement again and leaves state() unchanged, whether it reached
\* the end by incrementing past the last row or was at the end right after
\* begin() (empty result set, or a first step that failed).
C30_IncrementAtEndIsNoOp ==
  [][(StmtRan("++") /\ equals_sentinel(st.it)) =>
       /\ st'.nsteps = st.nsteps
       /\ iterator_state(st'.it) = iterator_state(st.it)]_vars

====
